---- MODULE Spec2Model ----
(***************************************************************************)
(* A model of the robust-binary-search core: RangeMap (range_map.rs), DAG  *)
(* (dag.rs), Searcher and CompressedDAGSearcher (lib.rs), FlakinessTracker *)
(* (flakiness_tracker.rs) and CompressedDAGFlakinessTracker                *)
(* (compressed_dag_flakiness_tracker.rs).                                  *)
(*                                                                         *)
(* Numbers.  The code computes weights in f64.  The model computes them as *)
(* exact rationals <<n, d>> (d > 0, gcd(n, d) = 1): every f64 operation of *)
(* the code (+, -, *, /, <, >=, abs, max, the cast `as usize`) is done on  *)
(* rationals without rounding.  The cast truncates toward zero and sends a *)
(* negative value to 0, as Rust's saturating float-to-int cast does.       *)
(* Flakiness values, which pass through a square root, are fixed-point     *)
(* numbers in units of 1 / FlakinessScale; optimal_stiffness, which takes  *)
(* fractional powers, is tabulated to the nearest quarter.                 *)
(*                                                                         *)
(* Indices.  Vec positions, entry offsets and the indices the operations   *)
(* take and return are 0-based as in the code; position k of a Vec is      *)
(* element k + 1 of the TLA+ sequence.                                     *)
(***************************************************************************)
EXTENDS Integers, Sequences, FiniteSets, TLC

VARIABLES
    weights,             \* Searcher.weights: RangeMap<f64> (its `values` Vec)
    len,                 \* Searcher.len (0: no Searcher constructed)
    graph,               \* DAG.nodes, shared by the CompressedDAGSearcher
    segment_range_maps,  \* CompressedDAGSearcher.segment_range_maps
    values,              \* RangeMap.values of a stand-alone RangeMap<T>
    size,                \* the size that RangeMap was created with
    reports,             \* number of mutating calls made so far
    lastOp,              \* the last mutating call and what it returned
    target,              \* the index the noise-free oracle of the tests hides
    fixed_stiffness,     \* optimal_stiffness of the flakiness those tests pass
    votes,               \* FlakinessTracker.votes: index -> <<tails, heads>>
    total_heads,         \* FlakinessTracker.total_heads
    total_tails,         \* FlakinessTracker.total_tails
    tracker_votes,       \* CompressedDAGFlakinessTracker.votes: segment -> FlakinessTracker
    history              \* every vote reported so far, in call order

vars == <<weights, len, graph, segment_range_maps, values, size, reports, lastOp,
          target, fixed_stiffness, votes, total_heads, total_tails, tracker_votes,
          history>>

trackerVars == <<votes, total_heads, total_tails, tracker_votes, history>>

\* FlakinessTracker::default() and CompressedDAGFlakinessTracker::new: no votes
NoVotes ==
    /\ votes = <<>>
    /\ total_heads = 0
    /\ total_tails = 0
    /\ tracker_votes = <<>>
    /\ history = <<>>

----------------------------------------------------------------------------
(* Bounds of the model *)

MaxLen == 3
MaxReports == 3
MaxSize == 4
MaxSplits == 3
MaxNodes == 4
MaxInputs == 2
MaxGraphReports == 2
MaxSteps == 8

----------------------------------------------------------------------------
(* f64 arithmetic, done exactly on rationals *)

RECURSIVE GCD(_, _)
GCD(a, b) == IF b = 0 THEN a ELSE GCD(b, a % b)

Abs(x) == IF x < 0 THEN -x ELSE x

Rat(n, d) ==
    LET g == GCD(Abs(n), d)
    IN  <<n \div g, d \div g>>

RInt(n) == <<n, 1>>

RAdd(x, y) ==
    LET g == GCD(x[2], y[2])
    IN  Rat(x[1] * (y[2] \div g) + y[1] * (x[2] \div g), (x[2] \div g) * y[2])

RNeg(x) == <<-x[1], x[2]>>

RSub(x, y) == RAdd(x, RNeg(y))

RMul(x, y) ==
    LET g1 == GCD(Abs(x[1]), y[2])
        g2 == GCD(Abs(y[1]), x[2])
    IN  Rat((x[1] \div g1) * (y[1] \div g2), (x[2] \div g2) * (y[2] \div g1))

\* x / y for y # 0 (every divisor of the code is a positive weight or sum)
RDiv(x, y) ==
    RMul(x, IF y[1] > 0 THEN <<y[2], y[1]>> ELSE <<-y[2], -y[1]>>)

RLess(x, y) ==
    LET g == GCD(x[2], y[2])
    IN  x[1] * (y[2] \div g) < y[1] * (x[2] \div g)

RLeq(x, y) == ~RLess(y, x)

RAbs(x) == <<Abs(x[1]), x[2]>>

RMax(x, y) == IF RLess(x, y) THEN y ELSE x

\* `x as usize`: truncation toward zero, negative values saturate to 0
AsUsize(x) == IF x[1] < 0 THEN 0 ELSE x[1] \div x[2]

Min(a, b) == IF a < b THEN a ELSE b

Half == <<1, 2>>

\* The tolerance 1e-9 of confidence_percentile_ceil is 1 / EpsDen.
EpsDen == 1000000000

\* `(q - 1e-9) as usize`.  q = k + r/d with 0 <= r < d; subtracting 1e-9
\* crosses the integer k exactly when r/d < 1/EpsDen, that is r < ceil(d/EpsDen).
TruncMinusEps(q) ==
    IF q[1] <= 0 THEN 0
    ELSE LET k == q[1] \div q[2]
             r == q[1] % q[2]
         IN  IF r >= (q[2] + EpsDen - 1) \div EpsDen THEN k
             ELSE IF k = 0 THEN 0 ELSE k - 1

----------------------------------------------------------------------------
(* RangeMap<T>  (range_map.rs) *)

End(w) == w.offset + w.len

RangeMap_new(n, value) == << [offset |-> 0, len |-> n, value |-> value] >>

RangeMap_len(vals) == End(vals[Len(vals)])

\* The position of the entry holding `index`, or vals.len() when none does.
range_index(vals, index) ==
    LET hits == {i \in 0..(Len(vals) - 1) :
                    index >= vals[i + 1].offset /\ index < End(vals[i + 1])}
    IN  IF hits = {} THEN Len(vals)
        ELSE CHOOSE i \in hits : \A j \in hits : i <= j

\* &self.values[range_index]: an out-of-bounds position panics
range_for_index_panics(vals, index) == range_index(vals, index) >= Len(vals)

range_for_index(vals, index) == vals[range_index(vals, index) + 1]

\* A Vec holds its elements: every element of the sequence f is evaluated
\* and stored.
Collect(f) == SubSeq(f, 1, Len(f))

InsertAt(s, pos, e) == SubSeq(s, 1, pos) \o <<e>> \o SubSeq(s, pos + 1, Len(s))

\* Mutant: the entry that is divided keeps its old length
split_impl_keeps_len(vals, index) ==
    LET hits == {i \in 0..(Len(vals) - 1) :
                    \/ vals[i + 1].offset = index
                    \/ index > vals[i + 1].offset /\ index < End(vals[i + 1])}
    IN  IF hits = {} THEN [values |-> vals, ret |-> Len(vals)]
        ELSE LET i == CHOOSE h \in hits : \A j \in hits : h <= j
                 w == vals[i + 1]
             IN  IF w.offset = index THEN [values |-> vals, ret |-> i]
                 ELSE [values |->
                          InsertAt(vals, i + 1,
                                   [offset |-> index, len |-> End(w) - index,
                                    value |-> w.value]),
                       ret |-> i + 1]

\* Mutant: after dividing an entry, the position of its first half is returned
split_impl_returns_first(vals, index) ==
    LET hits == {i \in 0..(Len(vals) - 1) :
                    \/ vals[i + 1].offset = index
                    \/ index > vals[i + 1].offset /\ index < End(vals[i + 1])}
    IN  IF hits = {} THEN [values |-> vals, ret |-> Len(vals)]
        ELSE LET i == CHOOSE h \in hits : \A j \in hits : h <= j
                 w == vals[i + 1]
             IN  IF w.offset = index THEN [values |-> vals, ret |-> i]
                 ELSE [values |->
                          InsertAt([vals EXCEPT ![i + 1].len = index - w.offset],
                                   i + 1,
                                   [offset |-> index, len |-> End(w) - index,
                                    value |-> w.value]),
                       ret |-> i]

\* RangeMap::_split: the first entry that starts at `index` or strictly
\* contains it decides; returns the new Vec and the returned position.
split_impl(vals, index) ==
    LET hits == {i \in 0..(Len(vals) - 1) :
                    \/ vals[i + 1].offset = index
                    \/ index > vals[i + 1].offset /\ index < End(vals[i + 1])}
    IN  IF hits = {} THEN [values |-> vals, ret |-> Len(vals)]
        ELSE LET i == CHOOSE h \in hits : \A j \in hits : h <= j
                 w == vals[i + 1]
             IN  IF w.offset = index THEN [values |-> vals, ret |-> i]
                 ELSE [values |->
                          InsertAt([vals EXCEPT ![i + 1].len = index - w.offset],
                                   i + 1,
                                   [offset |-> index, len |-> End(w) - index,
                                    value |-> w.value]),
                       ret |-> i + 1]

\* RangeMap::split: the iterators are the positions [0, ret) and [ret, len)
split(vals, index) ==
    LET s == split_impl(vals, index)
    IN  [values |-> s.values, ret |-> s.ret,
         left |-> 0..(s.ret - 1), right |-> s.ret..(Len(s.values) - 1)]

----------------------------------------------------------------------------
(* Percentile search and the weight update shared by both searchers (lib.rs) *)

RECURSIVE weight_sum_from(_, _)
weight_sum_from(vals, k) ==
    IF k > Len(vals) THEN RInt(0)
    ELSE RAdd(RMul(vals[k].value, RInt(vals[k].len)), weight_sum_from(vals, k + 1))

RECURSIVE value_sum_from(_, _)
value_sum_from(vals, k) ==
    IF k > Len(vals) THEN RInt(0)
    ELSE RAdd(vals[k].value, value_sum_from(vals, k + 1))

\* Mutant: the sum forgets the entries' lengths
weight_sum_no_len(vals) == value_sum_from(vals, 1)

\* ranges().map(|w| w.value() * w.len() as f64).sum()
weight_sum(vals) == weight_sum_from(vals, 1)

\* Mutant: rounds down instead of to the nearest
nearest_offset_floor(w, q) == Min(w.len - 1, AsUsize(q))

\* How far into an entry of per-index weight w.value the nearest search goes
\* when q = (percentile - sum) / w.value.
nearest_offset(w, q) == Min(w.len - 1, AsUsize(RMax(RSub(q, Half), RInt(0))))

\* One pass of the loop of confidence_percentile_nearest over entry k + 1.
\* acc.found is FALSE while best_percentile is still NEG_INFINITY.
RECURSIVE nearest_loop(_, _, _, _)
nearest_loop(vals, k, percentile, acc) ==
    IF k > Len(vals) THEN acc
    ELSE LET w == vals[k]
             delta == RMul(RInt(w.len), w.value)
             ix == acc.index
                   + nearest_offset(w, RDiv(RSub(percentile, acc.sum), w.value))
             ix_percentile == RAdd(acc.sum, RMul(RInt(ix - acc.index + 1), w.value))
             better == \/ ~acc.found
                       \/ RLess(RAbs(RSub(ix_percentile, percentile)),
                                RAbs(RSub(acc.best_percentile, percentile)))
         IN  nearest_loop(vals, k + 1, percentile,
                 [sum |-> RAdd(acc.sum, delta),
                  index |-> acc.index + w.len,
                  best_index |-> IF better THEN ix ELSE acc.best_index,
                  best_percentile |-> IF better THEN ix_percentile
                                      ELSE acc.best_percentile,
                  found |-> acc.found \/ better])

\* Returns <<best_index, best_percentile>>
confidence_percentile_nearest(vals, percentile) ==
    LET r == nearest_loop(vals, 1, percentile,
                 [sum |-> RInt(0), index |-> 0, best_index |-> 0,
                  best_percentile |-> RInt(0), found |-> FALSE])
    IN  <<r.best_index, r.best_percentile>>

\* Mutant: the cast without the 1e-9 tolerance
ceil_offset_no_tolerance(q) == AsUsize(q)

\* Mutant: the count of indices taken for the offset of the last one
ceil_offset_count(q) == AsUsize(q) + 1

\* How far into the entry the ceil search goes: ((percentile - sum) / w.value - 1e-9) as usize
ceil_offset(q) == TruncMinusEps(q)

RECURSIVE ceil_loop(_, _, _, _, _)
ceil_loop(vals, k, percentile, sum, index) ==
    IF k > Len(vals) THEN <<RangeMap_len(vals) - 1, sum>>
    ELSE LET w == vals[k]
             delta == RMul(RInt(w.len), w.value)
         IN  IF RLeq(percentile, RAdd(sum, delta))
             THEN LET ix == index + ceil_offset(RDiv(RSub(percentile, sum), w.value))
                  IN  <<ix, RAdd(sum, RMul(RInt(ix - index + 1), w.value))>>
             ELSE ceil_loop(vals, k + 1, percentile, RAdd(sum, delta), index + w.len)

\* Returns <<index, sum>>
confidence_percentile_ceil(vals, percentile) ==
    ceil_loop(vals, 1, percentile, RInt(0), 0)

\* Mutant: the factor is the stiffness alone
scale_by_stiffness(v, stiffness) == RMul(v, stiffness)

\* Mutant: the stiffness is added to the weight
scale_adds(v, stiffness) == RAdd(v, stiffness)

\* Mutant: the factor is 1 - stiffness, or 0 when that is negative
scale_down(v, stiffness) == RMul(v, RMax(RSub(RInt(1), stiffness), RInt(0)))

\* *w.value_mut() *= 1.0 + stiffness
scale(v, stiffness) == RMul(v, RAdd(RInt(1), stiffness))

ScaleAt(vals, positions, stiffness) ==
    Collect([k \in 1..Len(vals) |->
                IF (k - 1) \in positions
                THEN [vals[k] EXCEPT !.value = scale(vals[k].value, stiffness)]
                ELSE vals[k]])

\* Mutant: one cut, after `index`; the same indices are scaled
report_range_one_cut(vals, index, heads, stiffness) ==
    LET s == split(vals, index + 1)
    IN  ScaleAt(s.values, IF heads THEN s.left ELSE s.right, stiffness)

\* Mutant: heads leaves out the entry of `index` itself
report_range_exclusive(vals, index, heads, stiffness) ==
    IF heads
    THEN LET s1 == split(vals, index)
             v1 == ScaleAt(s1.values, s1.left, stiffness)
         IN  split(v1, index + 1).values
    ELSE LET s1 == split(vals, index)
             s2 == split(s1.values, index + 1)
         IN  ScaleAt(s2.values, s2.right, stiffness)

\* report_range: heads scales [0, index], tails scales [index + 1, size).
\* Does not normalize.
report_range(vals, index, heads, stiffness) ==
    IF heads
    THEN LET s1 == split(vals, index)
             v1 == ScaleAt(s1.values, s1.left, stiffness)
             s2 == split(v1, index + 1)
         IN  ScaleAt(s2.values, {s2.ret - 1}, stiffness)
    ELSE LET s1 == split(vals, index)
             s2 == split(s1.values, index + 1)
         IN  ScaleAt(s2.values, s2.right, stiffness)

\* left.rev().next().unwrap() of the heads branch panics on an empty left side
report_range_panics(vals, index, heads) ==
    heads /\ split(split(vals, index).values, index + 1).ret = 0

\* for w in ranges_mut() { *w.value_mut() /= weight_sum }
divide_all(vals, total) ==
    Collect([k \in 1..Len(vals) |->
                [vals[k] EXCEPT !.value = RDiv(vals[k].value, total)]])

----------------------------------------------------------------------------
(* Searcher (lib.rs) *)

Searcher_new(n) == RangeMap_new(n + 1, Rat(1, n + 1))

report_with_stiffness(w, index, heads, stiffness) ==
    LET updated == report_range(w, index, heads, stiffness)
    IN  divide_all(updated, weight_sum(updated))

next_index(w, n) == Min(confidence_percentile_nearest(w, Half)[1], n - 1)

best_index(w) == confidence_percentile_ceil(w, Half)[1]

likelihood(w, index) == range_for_index(w, index).value

\* Stiffness values the reports of the model use.  optimal_stiffness maps
\* the flakiness range (0, 1) onto (0.19, infinity), which holds all of them.
Stiffnesses == {<<1, 2>>, <<1, 1>>, <<2, 1>>}

NoOp == [op |-> "none", segment |-> 0, index |-> 0, heads |-> FALSE,
         stiffness |-> RInt(0), ret |-> 0]

\* A failed assertion or an out-of-bounds Vec access ends the run: the op of
\* the call that panicked is recorded with this suffix and nothing runs after it.
Aborted == lastOp.op \in {"add_node panicked", "report panicked", "likelihood panicked"}

InitSearcher ==
    /\ len \in 1..MaxLen
    /\ weights = Searcher_new(len)
    /\ graph = <<>>
    /\ segment_range_maps = <<>>
    /\ values = <<>>
    /\ size = 0
    /\ reports = 0
    /\ lastOp = NoOp
    /\ target = 0
    /\ fixed_stiffness = RInt(0)
    /\ NoVotes

\* Mutant: the assertion lets the index len through
report_with_stiffness_panics_above(n, index) == index > n

\* assert!(index < self.len) of report_with_stiffness
report_with_stiffness_panics(n, index) == ~(index < n)

\* Searcher::report_with_stiffness(index, heads, stiffness) that passes the assertion
SearcherReport(index, heads, s) ==
    /\ ~Aborted
    /\ ~report_with_stiffness_panics(len, index)
    /\ reports < MaxReports
    /\ weights' = report_with_stiffness(weights, index, heads, s)
    /\ reports' = reports + 1
    /\ lastOp' = [op |-> "report", segment |-> 0, index |-> index, heads |-> heads,
                  stiffness |-> s, ret |-> 0]
    /\ UNCHANGED <<len, graph, segment_range_maps, values, size, target, fixed_stiffness,
                   trackerVars>>

NextSearcher ==
    \E index \in 0..(len - 1), heads \in BOOLEAN, s \in Stiffnesses :
        SearcherReport(index, heads, s)

SpecSearcher == InitSearcher /\ [][NextSearcher]_vars

\* Searcher::report_with_stiffness(index, heads, stiffness) that fails the assertion
SearcherReportPanics(index, heads, s) ==
    /\ ~Aborted
    /\ report_with_stiffness_panics(len, index)
    /\ lastOp' = [op |-> "report panicked", segment |-> 0, index |-> index,
                  heads |-> heads, stiffness |-> s, ret |-> 0]
    /\ UNCHANGED <<weights, len, graph, segment_range_maps, values, size, reports,
                   target, fixed_stiffness, trackerVars>>

\* Searcher::likelihood(index) that returns
Likelihood(index) ==
    /\ ~Aborted
    /\ ~range_for_index_panics(weights, index)
    /\ lastOp' = [op |-> "likelihood", segment |-> 0, index |-> index,
                  heads |-> FALSE, stiffness |-> RInt(0),
                  ret |-> likelihood(weights, index)]
    /\ UNCHANGED <<weights, len, graph, segment_range_maps, values, size, reports,
                   target, fixed_stiffness, trackerVars>>

\* Searcher::likelihood(index) whose Vec access is out of bounds
LikelihoodPanics(index) ==
    /\ ~Aborted
    /\ range_for_index_panics(weights, index)
    /\ lastOp' = [op |-> "likelihood panicked", segment |-> 0, index |-> index,
                  heads |-> FALSE, stiffness |-> RInt(0), ret |-> 0]
    /\ UNCHANGED <<weights, len, graph, segment_range_maps, values, size, reports,
                   target, fixed_stiffness, trackerVars>>

\* The calls of a Searcher with any index up to len + 1
NextSearcherCalls ==
    \/ \E index \in 0..(len + 1), heads \in BOOLEAN, s \in Stiffnesses :
           SearcherReport(index, heads, s)
    \/ \E index \in 0..(len + 1), heads \in BOOLEAN, s \in Stiffnesses :
           SearcherReportPanics(index, heads, s)
    \/ \E index \in 0..(len + 1) : Likelihood(index)
    \/ \E index \in 0..(len + 1) : LikelihoodPanics(index)

SpecSearcherCalls == InitSearcher /\ [][NextSearcherCalls]_vars

----------------------------------------------------------------------------
(* DAG<T>  (dag.rs) *)

RECURSIVE SortedSeq(_)
\* into_iter().collect::<Vec<usize>>() followed by sort()
SortedSeq(S) ==
    IF S = {} THEN <<>>
    ELSE LET m == CHOOSE x \in S : \A y \in S : x <= y
         IN  <<m>> \o SortedSeq(S \ {m})

\* Mutant: the remainder is tracked on its own, not against the first input's ancestors
RECURSIVE visit_unfiltered(_, _, _, _)
visit_unfiltered(nodes, ancestors, remainder, queue) ==
    IF queue = <<>> THEN [ancestors |-> ancestors, remainder |-> remainder]
    ELSE LET ancestor == queue[Len(queue)]
             rest == SubSeq(queue, 1, Len(queue) - 1)
         IN  IF ancestor \notin remainder
             THEN visit_unfiltered(nodes, ancestors \cup {ancestor},
                                   remainder \cup {ancestor},
                                   rest \o nodes[ancestor + 1].inputs)
             ELSE visit_unfiltered(nodes, ancestors, remainder, rest)

\* Mutant: the inputs of a new ancestor are not followed
RECURSIVE visit_direct_only(_, _, _, _)
visit_direct_only(nodes, ancestors, remainder, queue) ==
    IF queue = <<>> THEN [ancestors |-> ancestors, remainder |-> remainder]
    ELSE LET ancestor == queue[Len(queue)]
             rest == SubSeq(queue, 1, Len(queue) - 1)
         IN  IF ancestor \notin ancestors
             THEN visit_direct_only(nodes, ancestors \cup {ancestor},
                                    remainder \cup {ancestor}, rest)
             ELSE visit_direct_only(nodes, ancestors, remainder, rest)

\* The work-list loop of add_node: Vec::pop takes the last element; an
\* ancestor not seen before joins both sets and has its inputs pushed.
RECURSIVE visit(_, _, _, _)
visit(nodes, ancestors, remainder, queue) ==
    IF queue = <<>> THEN [ancestors |-> ancestors, remainder |-> remainder]
    ELSE LET ancestor == queue[Len(queue)]
             rest == SubSeq(queue, 1, Len(queue) - 1)
         IN  IF ancestor \notin ancestors
             THEN visit(nodes, ancestors \cup {ancestor}, remainder \cup {ancestor},
                        rest \o nodes[ancestor + 1].inputs)
             ELSE visit(nodes, ancestors, remainder, rest)

\* assert!(*input < self.nodes.len()) for every input
add_node_panics(nodes, inputs) ==
    \E k \in 1..Len(inputs) : inputs[k] >= Len(nodes)

\* Mutant: the new node is put in front of the others
add_node_prepends(nodes, value, inputs) ==
    <<[value |-> value, inputs |-> inputs, ancestors |-> {},
       remainder_ancestors |-> <<>>]>> \o nodes

\* DAG::add_node(value, inputs), for inputs that pass the assertion
add_node(nodes, value, inputs) ==
    IF inputs = <<>>
    THEN Append(nodes, [value |-> value, inputs |-> inputs, ancestors |-> {},
                        remainder_ancestors |-> <<>>])
    ELSE LET first == inputs[1]
             r == visit(nodes, nodes[first + 1].ancestors \cup {first}, {},
                        SubSeq(inputs, 2, Len(inputs)))
         IN  Append(nodes, [value |-> value, inputs |-> inputs,
                            ancestors |-> r.ancestors,
                            remainder_ancestors |-> SortedSeq(r.remainder)])

\* All input lists of at most MaxInputs indices below MaxNodes
InputLists == UNION {[1..n -> 0..(MaxNodes - 1)] : n \in 0..MaxInputs}

InitDAG ==
    /\ graph = <<>>
    /\ weights = <<>>
    /\ len = 0
    /\ segment_range_maps = <<>>
    /\ values = <<>>
    /\ size = 0
    /\ reports = 0
    /\ lastOp = NoOp
    /\ target = 0
    /\ fixed_stiffness = RInt(0)
    /\ NoVotes

\* graph.add_node((), inputs): the payload plays no part in add_node
AddNode(inputs) ==
    /\ ~Aborted
    /\ Len(graph) < MaxNodes
    /\ ~add_node_panics(graph, inputs)
    /\ graph' = add_node(graph, 1, inputs)
    /\ lastOp' = [op |-> "add_node", inputs |-> inputs]
    /\ UNCHANGED <<weights, len, segment_range_maps, values, size, reports,
                   target, fixed_stiffness,
                   trackerVars>>

\* graph.add_node((), inputs) with an input that fails the assertion
AddNodePanics(inputs) ==
    /\ ~Aborted
    /\ Len(graph) < MaxNodes
    /\ add_node_panics(graph, inputs)
    /\ lastOp' = [op |-> "add_node panicked", inputs |-> inputs]
    /\ UNCHANGED <<graph, weights, len, segment_range_maps, values, size, reports,
                   target, fixed_stiffness,
                   trackerVars>>

NextDAG ==
    \/ \E inputs \in InputLists : AddNode(inputs)
    \/ \E inputs \in InputLists : AddNodePanics(inputs)

SpecDAG == InitDAG /\ [][NextDAG]_vars

----------------------------------------------------------------------------
(* CompressedDAGSearcher (lib.rs).  A node's value is its segment's len. *)

RECURSIVE build(_, _)
\* The graph a sequence of add_node(CompressedDAGSegment::new(len), inputs) calls builds
build(calls, k) ==
    IF k = 0 THEN <<>>
    ELSE add_node(build(calls, k - 1), calls[k][1], calls[k][2])

RECURSIVE total_len(_, _)
total_len(nodes, k) ==
    IF k = 0 THEN 0 ELSE nodes[k].value + total_len(nodes, k - 1)

CompressedDAGSearcher_new(nodes) ==
    Collect([i \in 1..Len(nodes) |->
                RangeMap_new(nodes[i].value, Rat(1, total_len(nodes, Len(nodes))))])

RECURSIVE maps_weight_sum(_, _)
\* The sum over all segments of the sum of value * len over the segment's entries
maps_weight_sum(maps, k) ==
    IF k = 0 THEN RInt(0)
    ELSE RAdd(maps_weight_sum(maps, k - 1), weight_sum(maps[k]))

\* graph.node(node.segment) indexes the node Vec: out of bounds panics
graph_report_panics(nodes, maps, node, heads) ==
    IF node.segment >= Len(nodes) THEN TRUE
    ELSE report_range_panics(maps[node.segment + 1], node.index, heads)

\* Mutant: tails scales every segment but the node's own
scaled_segments_all_but_own(nodes, node, heads) ==
    IF heads THEN nodes[node.segment + 1].ancestors
    ELSE {s \in 0..(Len(nodes) - 1) : s # node.segment}

\* The segments whose every entry CompressedDAGSearcher::report scales
scaled_segments(nodes, node, heads) ==
    IF heads THEN nodes[node.segment + 1].ancestors
    ELSE {s \in 0..(Len(nodes) - 1) :
             ~(s \in nodes[node.segment + 1].ancestors \/ s = node.segment)}

\* CompressedDAGSearcher::report with stiffness = optimal_stiffness(flakiness)
graph_report(nodes, maps, node, heads, stiffness) ==
    LET whole == scaled_segments(nodes, node, heads)
        m1 == Collect([i \in 1..Len(maps) |->
                          IF (i - 1) \in whole
                          THEN ScaleAt(maps[i], 0..(Len(maps[i]) - 1), stiffness)
                          ELSE maps[i]])
        m2 == [m1 EXCEPT ![node.segment + 1] =
                  report_range(m1[node.segment + 1], node.index, heads, stiffness)]
        total == maps_weight_sum(m2, Len(m2))
    IN  Collect([i \in 1..Len(m2) |-> divide_all(m2[i], total)])

RECURSIVE remainder_sum(_, _, _)
\* for ancestor in remainder_ancestors { start += segment_sums[*ancestor] }
remainder_sum(maps, rem, k) ==
    IF k > Len(rem) THEN RInt(0)
    ELSE RAdd(weight_sum(maps[rem[k] + 1]), remainder_sum(maps, rem, k + 1))

RECURSIVE segment_range(_, _, _)
\* Mutant: the start is taken from the start of the first input
segment_range_from_start(nodes, maps, i) ==
    LET inputs == nodes[i + 1].inputs
        start == IF inputs = <<>> THEN RInt(0)
                 ELSE RAdd(segment_range(nodes, maps, inputs[1])[1],
                           remainder_sum(maps, nodes[i + 1].remainder_ancestors, 1))
    IN  <<start, RAdd(start, weight_sum(maps[i + 1]))>>

\* The entry <<start, end>> that segment_percentile_ranges pushes for segment i
segment_range(nodes, maps, i) ==
    LET inputs == nodes[i + 1].inputs
        start == IF inputs = <<>> THEN RInt(0)
                 ELSE RAdd(segment_range(nodes, maps, inputs[1])[2],
                           remainder_sum(maps, nodes[i + 1].remainder_ancestors, 1))
    IN  <<start, RAdd(start, weight_sum(maps[i + 1]))>>

\* CompressedDAGSearcher::segment_percentile_ranges
segment_percentile_ranges(nodes, maps) ==
    Collect([k \in 1..Len(maps) |-> segment_range(nodes, maps, k - 1)])

\* assert!((0.0..=1.0 + 1e-11).contains(&start) && (0.0..=1.0 + 1e-11).contains(&end)).
\* A rational n / d above 1 is above 1 by at least 1 / d, and every d of the
\* model is below 1e11: x <= 1 + 1e-11 exactly when x <= 1.
segment_percentile_ranges_panics(nodes, maps) ==
    \E k \in 1..Len(maps) :
        LET r == segment_range(nodes, maps, k - 1)
        IN  ~(/\ RLeq(RInt(0), r[1]) /\ RLeq(r[1], RInt(1))
              /\ RLeq(RInt(0), r[2]) /\ RLeq(r[2], RInt(1)))

\* Mutant: a segment's answer is kept without the test value >= percentile
ceil_accepts_below(value, percentile, acc) ==
    ~acc.found \/ RLess(value, acc.min_end_value)

\* value < min_end_value && value >= percentile; min_end_value is INFINITY
\* while acc.found is FALSE
ceil_accepts(value, percentile, acc) ==
    /\ ~acc.found \/ RLess(value, acc.min_end_value)
    /\ RLeq(percentile, value)

RECURSIVE graph_ceil_loop(_, _, _, _, _)
\* The loop of CompressedDAGSearcher::confidence_percentile_ceil from segment i on
graph_ceil_loop(maps, ranges, percentile, i, acc) ==
    IF i >= Len(maps) THEN acc
    ELSE LET c == confidence_percentile_ceil(maps[i + 1],
                                             RSub(percentile, ranges[i + 1][1]))
             value == RAdd(c[2], ranges[i + 1][1])
         IN  graph_ceil_loop(maps, ranges, percentile, i + 1,
                 IF ceil_accepts(value, percentile, acc)
                 THEN [min_end |-> c[1], min_end_segment |-> i,
                       min_end_value |-> value, found |-> TRUE]
                 ELSE acc)

\* CompressedDAGSearcher::confidence_percentile_ceil: the node it returns
graph_confidence_percentile_ceil(nodes, maps, percentile) ==
    LET r == graph_ceil_loop(maps, segment_percentile_ranges(nodes, maps), percentile, 0,
                 [min_end |-> 0, min_end_segment |-> 0, min_end_value |-> RInt(0),
                  found |-> FALSE])
    IN  [segment |-> r.min_end_segment, index |-> r.min_end]

\* CompressedDAGSearcher::best_node
best_node(nodes, maps) == graph_confidence_percentile_ceil(nodes, maps, Half)

graph_likelihood(maps, node) == range_for_index(maps[node.segment + 1], node.index).value

\* Mutant: a segment's answer replaces an equally near one
nearest_accepts_ties(value, percentile, acc) ==
    \/ ~acc.found
    \/ RLeq(RAbs(RSub(percentile, value)), RAbs(RSub(percentile, acc.best_value)))

\* (percentile - value).abs() < (percentile - best_value).abs(); best_value
\* is NEG_INFINITY while acc.found is FALSE
nearest_accepts(value, percentile, acc) ==
    \/ ~acc.found
    \/ RLess(RAbs(RSub(percentile, value)), RAbs(RSub(percentile, acc.best_value)))

RECURSIVE graph_nearest_loop(_, _, _, _, _)
\* The loop of CompressedDAGSearcher::confidence_percentile_nearest from segment i on
graph_nearest_loop(maps, ranges, percentile, i, acc) ==
    IF i >= Len(maps) THEN acc
    ELSE LET c == confidence_percentile_nearest(maps[i + 1],
                                                RSub(percentile, ranges[i + 1][1]))
             value == RAdd(c[2], ranges[i + 1][1])
         IN  graph_nearest_loop(maps, ranges, percentile, i + 1,
                 IF nearest_accepts(value, percentile, acc)
                 THEN [segment |-> i, index |-> c[1], best_value |-> value,
                       found |-> TRUE]
                 ELSE acc)

\* CompressedDAGSearcher::confidence_percentile_nearest: the node it returns
graph_confidence_percentile_nearest(nodes, maps, percentile) ==
    LET r == graph_nearest_loop(maps, segment_percentile_ranges(nodes, maps),
                 percentile, 0,
                 [segment |-> 0, index |-> 0, best_value |-> RInt(0), found |-> FALSE])
    IN  [segment |-> r.segment, index |-> r.index]

\* CompressedDAGSearcher::next_node
next_node(nodes, maps) == graph_confidence_percentile_nearest(nodes, maps, Half)

\* The add_node calls that build the graphs searched: two parallel segments,
\* three parallel segments, a chain, a fork that joins again, and two
\* sources that merge.
GraphBuilds ==
    { << <<2, <<>>>>, <<2, <<>>>> >>,
      << <<1, <<>>>>, <<1, <<>>>>, <<1, <<>>>> >>,
      << <<1, <<>>>>, <<2, <<0>>>>, <<1, <<1>>>> >>,
      << <<1, <<>>>>, <<1, <<0>>>>, <<2, <<0>>>>, <<1, <<1, 2>>>> >>,
      << <<2, <<>>>>, <<1, <<>>>>, <<1, <<0, 1>>>> >> }

InitGraphSearcher ==
    /\ \E calls \in GraphBuilds : graph = build(calls, Len(calls))
    /\ segment_range_maps = CompressedDAGSearcher_new(graph)
    /\ weights = <<>>
    /\ len = 0
    /\ values = <<>>
    /\ size = 0
    /\ reports = 0
    /\ lastOp = NoOp
    /\ target = 0
    /\ fixed_stiffness = RInt(0)
    /\ NoVotes

\* CompressedDAGSearcher::report(node, heads, flakiness) with an in-range node
GraphReport(node, heads, s) ==
    /\ ~Aborted
    /\ node.segment < Len(graph)
    /\ node.index < graph[node.segment + 1].value
    /\ reports < MaxGraphReports
    /\ segment_range_maps' = graph_report(graph, segment_range_maps, node, heads, s)
    /\ reports' = reports + 1
    /\ lastOp' = [op |-> "report", segment |-> node.segment, index |-> node.index,
                  heads |-> heads, stiffness |-> s, ret |-> 0]
    /\ UNCHANGED <<weights, len, graph, values, size, target, fixed_stiffness,
                   trackerVars>>

NextGraphSearcher ==
    \E segment \in 0..(Len(graph) - 1), heads \in BOOLEAN, s \in Stiffnesses :
        \E index \in 0..(graph[segment + 1].value - 1) :
            GraphReport([segment |-> segment, index |-> index], heads, s)

SpecGraphSearcher == InitGraphSearcher /\ [][NextGraphSearcher]_vars

\* Whether the graph has the node
in_range(nodes, node) ==
    IF node.segment < Len(nodes) THEN node.index < nodes[node.segment + 1].value
    ELSE FALSE

\* CompressedDAGSearcher::report with a node the graph does not have, when
\* a Vec access or the unwrap of report_range panics
GraphReportPanics(node, heads, s) ==
    /\ ~Aborted
    /\ ~in_range(graph, node)
    /\ reports < MaxGraphReports
    /\ graph_report_panics(graph, segment_range_maps, node, heads)
    /\ lastOp' = [op |-> "report panicked", segment |-> node.segment,
                  index |-> node.index, heads |-> heads, stiffness |-> s, ret |-> 0]
    /\ UNCHANGED <<weights, len, graph, segment_range_maps, values, size, reports,
                   target, fixed_stiffness, trackerVars>>

\* CompressedDAGSearcher::report with a node the graph does not have, when
\* nothing panics: the call runs to its end
GraphReportUnchecked(node, heads, s) ==
    /\ ~Aborted
    /\ ~in_range(graph, node)
    /\ reports < MaxGraphReports
    /\ ~graph_report_panics(graph, segment_range_maps, node, heads)
    /\ segment_range_maps' = graph_report(graph, segment_range_maps, node, heads, s)
    /\ reports' = reports + 1
    /\ lastOp' = [op |-> "report", segment |-> node.segment, index |-> node.index,
                  heads |-> heads, stiffness |-> s, ret |-> 0]
    /\ UNCHANGED <<weights, len, graph, values, size, target, fixed_stiffness,
                   trackerVars>>

\* The reports of a CompressedDAGSearcher with any node, in the graph or not
NextGraphCalls ==
    \/ NextGraphSearcher
    \/ \E segment \in 0..Len(graph), index \in 0..(MaxLen + 1),
          heads \in BOOLEAN, s \in Stiffnesses :
           GraphReportPanics([segment |-> segment, index |-> index], heads, s)
    \/ \E segment \in 0..Len(graph), index \in 0..(MaxLen + 1),
          heads \in BOOLEAN, s \in Stiffnesses :
           GraphReportUnchecked([segment |-> segment, index |-> index], heads, s)

SpecGraphCalls == InitGraphSearcher /\ [][NextGraphCalls]_vars

\* A Searcher or a CompressedDAGSearcher, under any reports
SpecSearchers ==
    (InitSearcher \/ InitGraphSearcher) /\ [][NextSearcher \/ NextGraphSearcher]_vars

----------------------------------------------------------------------------
(* A stand-alone RangeMap<T> under split and in-place value mutation *)

\* The values T of the stand-alone map
Payloads == {0, 1}

InitRangeMap ==
    /\ size \in 1..MaxSize
    /\ values = RangeMap_new(size, 0)
    /\ weights = <<>>
    /\ len = 0
    /\ graph = <<>>
    /\ segment_range_maps = <<>>
    /\ reports = 0
    /\ lastOp = NoOp
    /\ target = 0
    /\ fixed_stiffness = RInt(0)
    /\ NoVotes

\* RangeMap::split(index); an index beyond the size finds no entry and changes nothing
Split(index) ==
    /\ reports < MaxSplits
    /\ values' = split(values, index).values
    /\ reports' = reports + 1
    /\ lastOp' = [op |-> "split", segment |-> 0, index |-> index, heads |-> FALSE,
                  stiffness |-> RInt(0), ret |-> split(values, index).ret]
    /\ UNCHANGED <<weights, len, graph, segment_range_maps, size, target, fixed_stiffness,
                   trackerVars>>

\* *entry.value_mut() = v for the entry at position k of ranges_mut()
SetValue(k, v) ==
    /\ reports < MaxSplits
    /\ k < Len(values)
    /\ values' = [values EXCEPT ![k + 1].value = v]
    /\ reports' = reports + 1
    /\ lastOp' = [op |-> "value_mut", segment |-> 0, index |-> k, heads |-> FALSE,
                  stiffness |-> RInt(0), ret |-> 0]
    /\ UNCHANGED <<weights, len, graph, segment_range_maps, size, target, fixed_stiffness,
                   trackerVars>>

NextRangeMap ==
    \/ \E index \in 0..(size + 1) : Split(index)
    \/ \E k \in 0..(Len(values) - 1), v \in Payloads : SetValue(k, v)

SpecRangeMap == InitRangeMap /\ [][NextRangeMap]_vars

----------------------------------------------------------------------------
(* The loop of the Searcher tests: probe next_index, answer for a hidden   *)
(* target without noise, report with the same flakiness every time.        *)

InitConverge ==
    /\ len \in 1..MaxLen
    /\ weights = Searcher_new(len)
    /\ target \in 0..len
    /\ fixed_stiffness \in Stiffnesses
    /\ graph = <<>>
    /\ segment_range_maps = <<>>
    /\ values = <<>>
    /\ size = 0
    /\ reports = 0
    /\ lastOp = NoOp
    /\ NoVotes

\* heads exactly when the probed index is at or after the target
oracle(index, t) == index >= t

\* s.report(s.next_index(), heads, flakiness)
Probe ==
    /\ reports < MaxSteps
    /\ LET index == next_index(weights, len)
           heads == oracle(index, target)
       IN  /\ weights' = report_with_stiffness(weights, index, heads, fixed_stiffness)
           /\ lastOp' = [op |-> "report", segment |-> 0, index |-> index,
                         heads |-> heads, stiffness |-> fixed_stiffness, ret |-> 0]
    /\ reports' = reports + 1
    /\ UNCHANGED <<len, graph, segment_range_maps, values, size, target, fixed_stiffness,
                   trackerVars>>

SpecConverge == InitConverge /\ [][Probe]_vars

----------------------------------------------------------------------------
(* FlakinessTracker  (flakiness_tracker.rs) *)

MaxVotes == 4
MaxIndex == 2

\* FlakinessTracker::default()
FlakinessTracker_default == [votes |-> <<>>, total_heads |-> 0, total_tails |-> 0]

\* Mutant: every vote is added to total_heads
FlakinessTracker_report_all_heads(t, index, heads) ==
    LET value == IF index \in DOMAIN t.votes THEN t.votes[index] ELSE <<0, 0>>
        added == <<value[1] + (IF heads THEN 0 ELSE 1),
                   value[2] + (IF heads THEN 1 ELSE 0)>>
    IN  [votes |-> [i \in (DOMAIN t.votes) \cup {index} |->
                       IF i = index THEN added ELSE t.votes[i]],
         total_heads |-> t.total_heads + 1,
         total_tails |-> t.total_tails]

\* FlakinessTracker::report: the bucket of `index` is created as (0, 0) when
\* absent, then one of its counters and one total go up by one.
FlakinessTracker_report(t, index, heads) ==
    LET value == IF index \in DOMAIN t.votes THEN t.votes[index] ELSE <<0, 0>>
        added == <<value[1] + (IF heads THEN 0 ELSE 1),
                   value[2] + (IF heads THEN 1 ELSE 0)>>
    IN  [votes |-> [i \in (DOMAIN t.votes) \cup {index} |->
                       IF i = index THEN added ELSE t.votes[i]],
         total_heads |-> t.total_heads + (IF heads THEN 1 ELSE 0),
         total_tails |-> t.total_tails + (IF heads THEN 0 ELSE 1)]

\* Mutant: the heads of the bucket itself are not counted against its tails
inversions_step_other_buckets(acc, tails, heads) ==
    LET n == heads + tails
    IN  [headstotal |-> acc.headstotal + heads,
         inverted |-> acc.inverted + tails * acc.headstotal,
         random_inversions |-> acc.random_inversions + n * n + n * acc.total_votes,
         total_votes |-> acc.total_votes + n]

\* Mutant: a bucket's own votes are paired without pairing a vote with itself
inversions_step_distinct_pairs(acc, tails, heads) ==
    LET n == heads + tails
    IN  [headstotal |-> acc.headstotal + heads,
         inverted |-> acc.inverted + tails * acc.headstotal + tails * heads,
         random_inversions |-> acc.random_inversions + n * (n - 1)
                               + n * acc.total_votes,
         total_votes |-> acc.total_votes + n]

\* The body of the loop of inversions() for one bucket (tails, heads)
inversions_step(acc, tails, heads) ==
    LET n == heads + tails
    IN  [headstotal |-> acc.headstotal + heads,
         inverted |-> acc.inverted + tails * acc.headstotal + tails * heads,
         random_inversions |-> acc.random_inversions + n * n + n * acc.total_votes,
         total_votes |-> acc.total_votes + n]

RECURSIVE inversions_loop(_, _, _)
\* BTreeMap::values() yields the buckets by ascending index
inversions_loop(v, keys, acc) ==
    IF keys = <<>> THEN acc
    ELSE inversions_loop(v, Tail(keys),
                         inversions_step(acc, v[Head(keys)][1], v[Head(keys)][2]))

\* FlakinessTracker::inversions: <<inverted, random_inversions>>
inversions(v) ==
    LET r == inversions_loop(v, SortedSeq(DOMAIN v),
                 [headstotal |-> 0, inverted |-> 0, random_inversions |-> 0,
                  total_votes |-> 0])
    IN  <<r.inverted, r.random_inversions>>

\* FlakinessTracker::total_votes
total_votes(t) == t.total_heads + t.total_tails

\* Flakiness values are held in units of 1 / FlakinessScale, rounded toward
\* zero; the tests of both trackers compare flakiness to this precision.
FlakinessScale == 10000

\* Mutant: the numerator is inv, without the 1 added to it
closed_form_unseeded(inv, rand_inv) ==
    LET d == rand_inv * 10000 + 76143
        n == inv * 100000000
        r == (n \div d) * 10 + ((n % d) * 10) \div d
        square == (1698 * ((r * r) \div 10000)) \div 10000
        linear == (37844 * r) \div 1000
        f == (square + linear) \div (1000000 \div FlakinessScale)
    IN  IF r >= 30000 \/ f > FlakinessScale THEN FlakinessScale
        ELSE IF f < 0 THEN 0 ELSE f

\* The closed form of FlakinessTracker::flakiness on (inv, rand_inv):
\* r = (inv + 1) / (rand_inv + 7.6143), (0.1698 r^2 + 3.7844 r).min(1.0).max(0.0).
\* r is carried to five decimal places and the polynomial to six; from
\* r = 0.3 on the polynomial is above 1 and the result is 1.
closed_form(inv, rand_inv) ==
    LET d == rand_inv * 10000 + 76143
        n == (inv + 1) * 100000000
        r == (n \div d) * 10 + ((n % d) * 10) \div d
        square == (1698 * ((r * r) \div 10000)) \div 10000
        linear == (37844 * r) \div 1000
        f == (square + linear) \div (1000000 \div FlakinessScale)
    IN  IF r >= 30000 \/ f > FlakinessScale THEN FlakinessScale
        ELSE IF f < 0 THEN 0 ELSE f

\* FlakinessTracker::flakiness
flakiness(v) == closed_form(inversions(v)[1], inversions(v)[2])

\* The linear tracker held in the variables
Tracker == [votes |-> votes, total_heads |-> total_heads, total_tails |-> total_tails]

InitTracker ==
    /\ votes = FlakinessTracker_default.votes
    /\ total_heads = FlakinessTracker_default.total_heads
    /\ total_tails = FlakinessTracker_default.total_tails
    /\ tracker_votes = <<>>
    /\ history = <<>>
    /\ weights = <<>>
    /\ len = 0
    /\ graph = <<>>
    /\ segment_range_maps = <<>>
    /\ values = <<>>
    /\ size = 0
    /\ reports = 0
    /\ lastOp = NoOp
    /\ target = 0
    /\ fixed_stiffness = RInt(0)

\* tracker.report(index, heads)
TrackerReport(index, heads) ==
    /\ Len(history) < MaxVotes
    /\ LET t == FlakinessTracker_report(Tracker, index, heads)
       IN  /\ votes' = t.votes
           /\ total_heads' = t.total_heads
           /\ total_tails' = t.total_tails
    /\ history' = Append(history, [segment |-> 0, index |-> index, heads |-> heads])
    /\ UNCHANGED <<weights, len, graph, segment_range_maps, values, size, reports,
                   lastOp, target, fixed_stiffness, tracker_votes>>

NextTracker == \E index \in 0..MaxIndex, heads \in BOOLEAN : TrackerReport(index, heads)

SpecTracker == InitTracker /\ [][NextTracker]_vars

----------------------------------------------------------------------------
(* CompressedDAGFlakinessTracker  (compressed_dag_flakiness_tracker.rs) *)

MaxGraphVotes == 3

\* CompressedDAGFlakinessTracker::report: the segment's tracker is created
\* empty when absent and takes the vote.
graph_tracker_report(tv, node, heads) ==
    [s \in (DOMAIN tv) \cup {node.segment} |->
        IF s = node.segment
        THEN FlakinessTracker_report(
                 IF s \in DOMAIN tv THEN tv[s] ELSE FlakinessTracker_default,
                 node.index, heads)
        ELSE tv[s]]

\* self.votes.get(&segment).map(|v| (v.total_heads(), v.total_votes())).unwrap_or((0, 0))
totals_of(tv, segment) ==
    IF segment \in DOMAIN tv
    THEN <<tv[segment].total_heads, total_votes(tv[segment])>>
    ELSE <<0, 0>>

RECURSIVE remainder_totals(_, _, _)
\* The totals of the segments rem[k..] added up
remainder_totals(tv, rem, k) ==
    IF k > Len(rem) THEN <<0, 0>>
    ELSE LET here == totals_of(tv, rem[k])
             rest == remainder_totals(tv, rem, k + 1)
         IN  <<here[1] + rest[1], here[2] + rest[2]>>

RECURSIVE votes_at_segment(_, _, _, _)
\* The first loop of inversions(): over the segments that have votes, by
\* ascending index, the map votes_at_segment gets an entry for each one
\* that has inputs.
votes_at_segment(nodes, tv, keys, at) ==
    IF keys = <<>> THEN at
    ELSE LET segment == Head(keys)
             inputs == nodes[segment + 1].inputs
         IN  IF inputs = <<>>
             THEN votes_at_segment(nodes, tv, Tail(keys), at)
             ELSE LET input == totals_of(tv, inputs[1])
                      before == IF inputs[1] \in DOMAIN at THEN at[inputs[1]]
                                ELSE <<0, 0>>
                      rem == remainder_totals(tv, nodes[segment + 1].remainder_ancestors, 1)
                      entry == <<before[1] + input[1] + rem[1],
                                 before[2] + input[2] + rem[2]>>
                  IN  votes_at_segment(nodes, tv, Tail(keys),
                          [k \in (DOMAIN at) \cup {segment} |->
                              IF k = segment THEN entry ELSE at[k]])

RECURSIVE graph_inversions_loop(_, _, _)
\* The second loop of inversions(): <<inversions, random_inversions>>
graph_inversions_loop(tv, at, keys) ==
    IF keys = <<>> THEN <<0, 0>>
    ELSE LET segment == Head(keys)
             above == IF segment \in DOMAIN at THEN at[segment] ELSE <<0, 0>>
             within == inversions(tv[segment].votes)
             rest == graph_inversions_loop(tv, at, Tail(keys))
         IN  <<tv[segment].total_tails * above[1] + within[1] + rest[1],
               total_votes(tv[segment]) * above[2] + within[2] + rest[2]>>

\* CompressedDAGFlakinessTracker::inversions
graph_inversions(nodes, tv) ==
    LET keys == SortedSeq(DOMAIN tv)
    IN  graph_inversions_loop(tv, votes_at_segment(nodes, tv, keys, <<>>), keys)

RECURSIVE sqrt_search(_, _, _)
\* The largest k of lo..hi with k * k <= x
sqrt_search(x, lo, hi) ==
    IF lo = hi THEN lo
    ELSE LET mid == (lo + hi + 1) \div 2
         IN  IF mid * mid <= x THEN sqrt_search(x, mid, hi)
             ELSE sqrt_search(x, lo, mid - 1)

\* Mutant: the closed form of the linear tracker
sqrt_form_as_closed_form(inv, rand_inv) == closed_form(inv, rand_inv)

\* The form of CompressedDAGFlakinessTracker::flakiness on (inv, rand_inv):
\* tmp = 1 - (inv + 1) / (rand_inv / 4 + 4 / 3), 1 - tmp.max(0.0).sqrt();
\* tmp is (3 rand_inv + 4 - 12 inv) / (3 rand_inv + 16).
sqrt_form(inv, rand_inv) ==
    LET num == 3 * rand_inv + 4 - 12 * inv
        den == 3 * rand_inv + 16
        unit == FlakinessScale * FlakinessScale
        tmp == (unit \div den) * num + ((unit % den) * num) \div den
    IN  IF num <= 0 THEN FlakinessScale
        ELSE FlakinessScale - sqrt_search(tmp, 0, FlakinessScale)

\* CompressedDAGFlakinessTracker::flakiness
graph_flakiness(nodes, tv) ==
    sqrt_form(graph_inversions(nodes, tv)[1], graph_inversions(nodes, tv)[2])

InitGraphTracker ==
    /\ \E calls \in GraphBuilds : graph = build(calls, Len(calls))
    /\ tracker_votes = <<>>
    /\ history = <<>>
    /\ votes = <<>>
    /\ total_heads = 0
    /\ total_tails = 0
    /\ segment_range_maps = <<>>
    /\ weights = <<>>
    /\ len = 0
    /\ values = <<>>
    /\ size = 0
    /\ reports = 0
    /\ lastOp = NoOp
    /\ target = 0
    /\ fixed_stiffness = RInt(0)

\* tracker.report(node, heads) for a node of the graph
GraphTrackerReport(node, heads) ==
    /\ Len(history) < MaxGraphVotes
    /\ node.segment < Len(graph)
    /\ node.index < graph[node.segment + 1].value
    /\ tracker_votes' = graph_tracker_report(tracker_votes, node, heads)
    /\ history' = Append(history, [segment |-> node.segment, index |-> node.index,
                                   heads |-> heads])
    /\ UNCHANGED <<weights, len, graph, segment_range_maps, values, size, reports,
                   lastOp, target, fixed_stiffness, votes, total_heads, total_tails>>

NextGraphTracker ==
    \E segment \in 0..(Len(graph) - 1), heads \in BOOLEAN :
        \E index \in 0..(graph[segment + 1].value - 1) :
            GraphTrackerReport([segment |-> segment, index |-> index], heads)

SpecGraphTracker == InitGraphTracker /\ [][NextGraphTracker]_vars

----------------------------------------------------------------------------
(* Per-index views used by the properties *)

\* The weight the map gives index i: the value of the one entry covering it
WeightAt(vals, i) ==
    LET k == CHOOSE k \in 1..Len(vals) : vals[k].offset <= i /\ i < End(vals[k])
    IN  vals[k].value

RECURSIVE Cums(_, _)
\* <<c_0, ..., c_n>>: c_i is the sum of the per-index weights of indices 0..=i
Cums(vals, n) ==
    IF n < 0 THEN <<>>
    ELSE LET below == Cums(vals, n - 1)
         IN  Append(below, RAdd(IF n = 0 THEN RInt(0) ELSE below[n], WeightAt(vals, n)))

\* Sum of the per-index weights of indices 0..=i
Cumulative(vals, i) == Cums(vals, i)[i + 1]

SameEntry(vals, a, b) ==
    \E k \in 1..Len(vals) :
        /\ vals[k].offset <= a /\ a < End(vals[k])
        /\ vals[k].offset <= b /\ b < End(vals[k])

\* The indices of 0..=n whose cumulative mass is nearest to one half
Nearest(vals, n) ==
    LET c == Cums(vals, n)
        dist == [i \in 0..n |-> RAbs(RSub(c[i + 1], Half))]
    IN  {i \in 0..n : \A j \in 0..n : RLeq(dist[i], dist[j])}

RECURSIVE EntryMass(_, _)
\* Sum of value * len over entries 1..k
EntryMass(vals, k) ==
    IF k = 0 THEN RInt(0)
    ELSE RAdd(EntryMass(vals, k - 1), RMul(vals[k].value, RInt(vals[k].len)))

RECURSIVE GraphEntryMass(_, _)
\* Sum of value * len over the entries of segments 1..k
GraphEntryMass(maps, k) ==
    IF k = 0 THEN RInt(0)
    ELSE RAdd(GraphEntryMass(maps, k - 1), EntryMass(maps[k], Len(maps[k])))

SetMin(S) == CHOOSE x \in S : \A y \in S : x <= y
SetMax(S) == CHOOSE x \in S : \A y \in S : x >= y

RECURSIVE GraphMass(_, _, _)
\* Sum over segments 1..k of the per-candidate weights of the segment
GraphMass(nodes, maps, k) ==
    IF k = 0 THEN RInt(0)
    ELSE RAdd(GraphMass(nodes, maps, k - 1), Cumulative(maps[k], nodes[k].value - 1))

----------------------------------------------------------------------------
(* Properties of Searcher and CompressedDAGSearcher *)

\* C1: after any in-range reports the total mass is 1: the sum of value * len
\* over the entries, and with it the sum of the per-index weights, is 1 for
\* the Searcher and, taken over all segments, for the CompressedDAGSearcher.
C1_TotalMassIsOne ==
    /\ len >= 1 =>
          /\ EntryMass(weights, Len(weights)) = RInt(1)
          /\ Cumulative(weights, len) = RInt(1)
    /\ Len(segment_range_maps) >= 1 =>
          /\ GraphEntryMass(segment_range_maps, Len(segment_range_maps)) = RInt(1)
          /\ GraphMass(graph, segment_range_maps, Len(graph)) = RInt(1)

\* A graph searcher after tails and heads reports, its weights no longer uniform
C1_Witness ==
    /\ Len(graph) >= 3
    /\ reports = MaxGraphReports
    /\ lastOp.op = "report" /\ lastOp.heads
    /\ \E a, b \in 1..Len(segment_range_maps) :
          Len(segment_range_maps[a]) = 2
          /\ segment_range_maps[a][1].value # segment_range_maps[b][1].value

C3_TieGoesToSmaller ==
    len >= 1 => next_index(weights, len) = Min(SetMin(Nearest(weights, len)), len - 1)

\* C3 amended: next_index() is min(j, len - 1) for the index j nearest to one
\* half in cumulative mass; of two equally near indices j is the larger when
\* both lie in the same RangeMap entry and the smaller when they do not.
C3_NearestTieRule ==
    len >= 1 =>
        LET near == Nearest(weights, len)
            j == IF SameEntry(weights, SetMin(near), SetMax(near))
                 THEN SetMax(near) ELSE SetMin(near)
        IN  /\ Cardinality(near) <= 2
            /\ next_index(weights, len) = Min(j, len - 1)

\* Two indices of one entry are equally near and the larger is returned
C3_Witness ==
    /\ len >= 1
    /\ LET near == Nearest(weights, len)
       IN  /\ Cardinality(near) = 2
           /\ SameEntry(weights, SetMin(near), SetMax(near))
           /\ next_index(weights, len) = SetMax(near)
           /\ SetMax(near) <= len - 1

\* C4: next_index() is in [0, len - 1] and best_index() is in [0, len].
C4_IndexRanges ==
    len >= 1 =>
        /\ next_index(weights, len) \in 0..(len - 1)
        /\ best_index(weights) \in 0..len

\* After tails reports both answers sit at the top of their ranges
C4_Witness ==
    /\ len >= 2 /\ reports >= 2
    /\ next_index(weights, len) = len - 1
    /\ best_index(weights) = len

\* The weight ratio law of one report at `index`: w and w2 are the weights
\* before and after.
RatioLaw(w, w2, n, index, heads, s) ==
    \A a, b \in 0..n :
        LET before == RMul(WeightAt(w, a), WeightAt(w2, b))
            after == RMul(WeightAt(w2, a), WeightAt(w, b))
            factor == RAdd(RInt(1), s)
        IN  /\ (a <= index) = (b <= index) => after = before
            /\ a <= index /\ index < b =>
                  IF heads THEN after = RMul(factor, before)
                  ELSE before = RMul(factor, after)

\* C5: one report_with_stiffness(i, heads, s) multiplies weight(a) / weight(b)
\* by 1 + s for a in [0, i] and b in (i, len] when heads, divides it by 1 + s
\* when tails, and leaves the ratio of two indices on one side of the cut
\* unchanged.
C5_RatioLaw ==
    [][reports' = reports + 1 =>
          RatioLaw(weights, weights', len, lastOp'.index, lastOp'.heads,
                   lastOp'.stiffness)]_vars

\* A heads report has acted between indices of different weight
C5_Witness ==
    /\ len >= 2 /\ reports >= 2
    /\ lastOp.op = "report" /\ lastOp.heads
    /\ lastOp.index < len - 1
    /\ WeightAt(weights, lastOp.index) # WeightAt(weights, lastOp.index + 1)
    /\ WeightAt(weights, len - 1) # WeightAt(weights, len)

----------------------------------------------------------------------------
(* Convergence of the test loop *)

\* C6: with a noise-free oracle for any target t in [0, len] and one fixed
\* flakiness, best_index() becomes t and stays t after every later report:
\* here from the (2 * len)-th report on, through MaxSteps reports.
C6_ConvergesAndStays ==
    (len >= 1 /\ reports >= 2 * len) => best_index(weights) = target

\* A run for an inner target that first answered something else and has settled
C6_Witness ==
    /\ len >= 3 /\ target \in 1..(len - 1)
    /\ reports = MaxSteps
    /\ best_index(weights) = target
    /\ best_index(Searcher_new(len)) # target

----------------------------------------------------------------------------
(* Properties of RangeMap *)

RECURSIVE LenSum(_, _)
LenSum(vals, k) == IF k = 0 THEN 0 ELSE vals[k].len + LenSum(vals, k - 1)

\* C7: after new(size, v) and any splits the entry list is non-empty, starts
\* at offset 0, has only entries of len > 0, each ending where the next one
\* starts, the lengths sum to size, len() is size, and range_for_index(j)
\* for every j in [0, size) is the one entry with offset <= j < offset + len.
C7_RangeMapInvariant ==
    size >= 1 =>
        /\ Len(values) >= 1
        /\ values[1].offset = 0
        /\ \A k \in 1..Len(values) : values[k].len > 0
        /\ \A k \in 1..(Len(values) - 1) : End(values[k]) = values[k + 1].offset
        /\ LenSum(values, Len(values)) = size
        /\ RangeMap_len(values) = size
        /\ \A j \in 0..(size - 1) :
              /\ ~range_for_index_panics(values, j)
              /\ range_for_index(values, j).offset <= j
              /\ j < End(range_for_index(values, j))
              /\ \A k \in 1..Len(values) :
                    (values[k].offset <= j /\ j < End(values[k]))
                        => values[k] = range_for_index(values, j)

\* A map cut into at least three entries, the last call a split
C7_Witness ==
    /\ size >= 3
    /\ Len(values) >= 3
    /\ lastOp.op = "split"

Starts(vals) == {vals[k].offset : k \in 1..Len(vals)}

\* What split(index), returning position ret, does to a map v of size n;
\* v2 is the map after it.
SplitLaw(v, v2, n, index, ret) ==
    /\ \A j \in 0..(n - 1) : WeightAt(v2, j) = WeightAt(v, j)
    /\ (index = 0 \/ index >= n \/ index \in Starts(v)) => v2 = v
    /\ (0 < index /\ index < n /\ index \notin Starts(v)) =>
          LET k == CHOOSE k \in 1..Len(v) : v[k].offset < index /\ index < End(v[k])
          IN  v2 = SubSeq(v, 1, k - 1)
                   \o << [offset |-> v[k].offset, len |-> index - v[k].offset,
                          value |-> v[k].value],
                         [offset |-> index, len |-> End(v[k]) - index,
                          value |-> v[k].value] >>
                   \o SubSeq(v, k + 1, Len(v))
    /\ split(v2, index).values = v2
    /\ split(v2, index).ret = ret
    /\ \A k \in 1..Len(v2) :
          /\ (k - 1) < ret <=> End(v2[k]) <= index
          /\ (k - 1) >= ret <=> v2[k].offset >= index

\* C8: split(i) changes no index's value, adds no entry when i is 0, the
\* size or an entry start, else replaces the entry [o, e) holding i by [o, i)
\* and [i, e) with the old value, is idempotent, and returns iterators over
\* exactly the entries of [0, i) and of [i, size), in order.
C8_SplitLaw ==
    [][(reports' = reports + 1 /\ lastOp'.op = "split") =>
          SplitLaw(values, values', size, lastOp'.index, lastOp'.ret)]_vars

\* The one split made divided an entry whose value had been set to 1
C8_Witness ==
    /\ reports = 2
    /\ lastOp.op = "split"
    /\ Len(values) = 2
    /\ values[1].value = 1 /\ values[2].value = 1
    /\ lastOp.ret = 1

----------------------------------------------------------------------------
(* Properties of DAG *)

Range(f) == {f[k] : k \in 1..Len(f)}

RECURSIVE Closure(_, _)
\* The nodes reached from node n by following inputs one or more times
Closure(nodes, n) ==
    UNION {{i} \cup Closure(nodes, i) : i \in Range(nodes[n + 1].inputs)}

\* C9: for a node with inputs, {inputs[0]}, ancestors(inputs[0]) and
\* remainder_ancestors are pairwise disjoint and their union is ancestors;
\* remainder_ancestors ascends strictly; a node without inputs has both empty.
C9_RemainderDecomposition ==
    \A n \in 0..(Len(graph) - 1) :
        LET node == graph[n + 1]
            rem == node.remainder_ancestors
        IN  IF node.inputs = <<>>
            THEN node.ancestors = {} /\ rem = <<>>
            ELSE LET first == node.inputs[1]
                     firsts == graph[first + 1].ancestors
                 IN  /\ first \notin firsts
                     /\ first \notin Range(rem)
                     /\ firsts \cap Range(rem) = {}
                     /\ {first} \cup firsts \cup Range(rem) = node.ancestors
                     /\ \A k \in 1..(Len(rem) - 1) : rem[k] < rem[k + 1]

\* A node whose second input shares an ancestor with its first and adds others
C9_Witness ==
    \E n \in 0..(Len(graph) - 1) :
        LET node == graph[n + 1]
        IN  /\ Len(node.inputs) = 2
            /\ Len(node.remainder_ancestors) >= 1
            /\ graph[node.inputs[1] + 1].ancestors # {}
            /\ graph[node.inputs[2] + 1].ancestors
                  \cap graph[node.inputs[1] + 1].ancestors # {}

\* Input lists with the same first input and the same set of inputs as `inputs`
Rearranged(inputs) ==
    {alt \in UNION {[1..k -> Range(inputs)] : k \in 1..(MaxInputs + 1)} :
        alt[1] = inputs[1] /\ Range(alt) = Range(inputs)}

\* C10: ancestors(n) is the transitive closure of n's inputs, excludes n,
\* holds only indices below n, and is the same set when the inputs are given
\* with duplicates or in another order after the first.
C10_AncestorsAreClosure ==
    \A n \in 0..(Len(graph) - 1) :
        LET node == graph[n + 1]
            earlier == SubSeq(graph, 1, n)
        IN  /\ node.ancestors = Closure(graph, n)
            /\ n \notin node.ancestors
            /\ \A a \in node.ancestors : a < n
            /\ node.inputs # <<>> =>
                  \A alt \in Rearranged(node.inputs) :
                      add_node(earlier, node.value, alt)[n + 1].ancestors
                          = node.ancestors

\* A node given one input twice, and a node reaching an ancestor only through
\* its second input's inputs
C10_Witness ==
    /\ \E n \in 0..(Len(graph) - 1) :
          /\ Len(graph[n + 1].inputs) = 2
          /\ graph[n + 1].inputs[1] = graph[n + 1].inputs[2]
          /\ graph[n + 1].ancestors # {}
    /\ \E n \in 0..(Len(graph) - 1) :
          LET node == graph[n + 1]
          IN  /\ Len(node.inputs) = 2
              /\ \E a \in node.ancestors :
                    /\ a \notin Range(node.inputs)
                    /\ a \notin graph[node.inputs[1] + 1].ancestors

\* C11: add_node(value, inputs) panics exactly when some input is not below
\* the number of nodes, and then the nodes are what they were; a call that
\* returns has appended one node and left the earlier nodes as they were.
C11_AddNodeLaw ==
    [][lastOp'.op \in {"add_node", "add_node panicked"} =>
          LET inputs == lastOp'.inputs
              bad == \E k \in 1..Len(inputs) : inputs[k] >= Len(graph)
          IN  /\ bad <=> lastOp'.op = "add_node panicked"
              /\ bad => graph' = graph
              /\ ~bad => /\ Len(graph') = Len(graph) + 1
                         /\ SubSeq(graph', 1, Len(graph)) = graph
                         /\ graph'[Len(graph')].inputs = inputs]_vars

\* A call whose first input is in range and whose second is not has panicked
\* on a graph that already has nodes with inputs
C11_Witness ==
    /\ lastOp.op = "add_node panicked"
    /\ Len(lastOp.inputs) = 2
    /\ lastOp.inputs[1] < Len(graph) /\ lastOp.inputs[2] >= Len(graph)
    /\ Len(graph) >= 2 /\ graph[Len(graph)].inputs # <<>>

----------------------------------------------------------------------------
(* Properties of FlakinessTracker *)

\* The pairs (a, b) of recorded votes that count as an inversion when the
\* votes are labelled by l: a is heads, b is tails, index(a) <= index(b)
InvertedPairs(h, l) ==
    {p \in (1..Len(h)) \X (1..Len(h)) :
        l[p[1]] /\ ~l[p[2]] /\ h[p[1]].index <= h[p[2]].index}

\* The labels the votes were reported with
Reported(h) == [k \in 1..Len(h) |-> h[k].heads]

RECURSIVE SumInversions(_, _)
\* The inversion counts of the labellings in L, summed
SumInversions(h, L) ==
    IF L = {} THEN 0
    ELSE LET l == CHOOSE x \in L : TRUE
         IN  Cardinality(InvertedPairs(h, l)) + SumInversions(h, L \ {l})

\* 2^n
RECURSIVE Pow2(_)
Pow2(n) == IF n = 0 THEN 1 ELSE 2 * Pow2(n - 1)

\* 2^n times four times the mean inversion count over all 2^n labellings
FourTimesExpected(h) == 4 * SumInversions(h, [1..Len(h) -> BOOLEAN])

\* C12: the first component of inversions() is the number of pairs (h, t) of
\* recorded votes with h heads, t tails and index(h) <= index(t), pairs of
\* one bucket included.
C12_InversionsCountPairs ==
    inversions(votes)[1] = Cardinality(InvertedPairs(history, Reported(history)))

\* Votes with an inverted pair inside one bucket, one across buckets, and a
\* heads vote above a tails vote that is not inverted
C12_Witness ==
    /\ \E a, b \in 1..Len(history) :
          history[a].heads /\ ~history[b].heads /\ history[a].index = history[b].index
    /\ \E a, b \in 1..Len(history) :
          history[a].heads /\ ~history[b].heads /\ history[a].index < history[b].index
    /\ \E a, b \in 1..Len(history) :
          history[a].heads /\ ~history[b].heads /\ history[a].index > history[b].index
    /\ inversions(votes)[1] >= 2

----------------------------------------------------------------------------
(* Properties of CompressedDAGFlakinessTracker *)

\* The recorded votes of segment s, as votes of a linear tracker
VotesOf(h, s) == SelectSeq(h, LAMBDA v : v.segment = s)

\* The number of recorded votes in the segments of S, heads only or all
CountIn(h, S, headsOnly) ==
    Cardinality({k \in 1..Len(h) : h[k].segment \in S /\ (headsOnly => h[k].heads)})

RECURSIVE TotalInversions(_, _, _)
\* <<I_total, R_total>> over the segments 0..(k - 1): each segment's tails
\* (votes) times the heads (votes) of all its strict ancestors, plus the
\* segment's own inversions.
TotalInversions(nodes, h, k) ==
    IF k = 0 THEN <<0, 0>>
    ELSE LET s == k - 1
             mine == VotesOf(h, s)
             n == Len(mine)
             tails == Cardinality({j \in 1..n : ~mine[j].heads})
             heads_at == CountIn(h, nodes[k].ancestors, TRUE)
             votes_at == CountIn(h, nodes[k].ancestors, FALSE)
             within == Cardinality(InvertedPairs(mine, Reported(mine)))
             random == (FourTimesExpected(mine) \div Pow2(n)) + n
             rest == TotalInversions(nodes, h, k - 1)
         IN  <<tails * heads_at + within + rest[1],
               n * votes_at + random + rest[2]>>

\* C14: inversions() adds, for each voted segment, its tails (votes) times
\* the heads (votes) of ALL its strict ancestor segments, voted-in or not,
\* to the segment's own inversions.
C14_AllStrictAncestorsCount ==
    graph_inversions(graph, tracker_votes) = TotalInversions(graph, history, Len(graph))

\* |x - y| in units of 1 / FlakinessScale
Apart(x, y) == IF x < y THEN y - x ELSE x - y

\* C15 as stated: flakiness() of the graph tracker is the closed form of the
\* linear tracker applied to its own (I, R), to the precision of the tests,
\* and is 0.5 when there are no votes.
C15_SameClosedForm ==
    LET ir == graph_inversions(graph, tracker_votes)
    IN  /\ Apart(graph_flakiness(graph, tracker_votes), closed_form(ir[1], ir[2])) <= 1
        /\ history = <<>> =>
              Apart(graph_flakiness(graph, tracker_votes), FlakinessScale \div 2) <= 1

\* C15 amended: flakiness() of the graph tracker is f = 1 - sqrt(max(0, t))
\* with t = 1 - (I + 1) / (R / 4 + 4 / 3) on its own (I, R): f is 1 when
\* t <= 0, else (1 - f)^2 is t, here to three decimal places of 1 - f; with
\* no votes f is 0.5, within the precision of the tests of what the closed
\* form of the linear tracker gives for (0, 0).
C15_SqrtForm ==
    LET ir == graph_inversions(graph, tracker_votes)
        f == graph_flakiness(graph, tracker_votes)
        num == 3 * ir[2] + 4 - 12 * ir[1]
        den == 3 * ir[2] + 16
        g == (FlakinessScale - f) \div 10
    IN  /\ f \in 0..FlakinessScale
        /\ num <= 0 => f = FlakinessScale
        /\ num > 0 => /\ g * g * den <= 1000000 * num
                      /\ (g + 1) * (g + 1) * den > 1000000 * num
        /\ history = <<>> =>
              /\ f = FlakinessScale \div 2
              /\ Apart(f, closed_form(0, 0)) <= 1

\* Votes whose (I, R) the two forms answer differently, one vote inverted
C15_Witness ==
    LET ir == graph_inversions(graph, tracker_votes)
    IN  /\ Len(history) >= 2
        /\ ir[1] >= 1
        /\ graph_flakiness(graph, tracker_votes) < FlakinessScale
        /\ Apart(graph_flakiness(graph, tracker_votes), closed_form(ir[1], ir[2])) > 100

----------------------------------------------------------------------------
(* Calls with an index or node that is out of range *)

\* C16: report(node, heads, flakiness) with node.segment >= the number of
\* segments or node.index >= the segment's length aborts and modifies no
\* weight.
C16_OutOfRangeReportAborts ==
    [][(/\ lastOp'.op \in {"report", "report panicked"}
        /\ ~in_range(graph, [segment |-> lastOp'.segment, index |-> lastOp'.index]))
          => /\ lastOp'.op = "report panicked"
             /\ segment_range_maps' = segment_range_maps]_vars

\* What a report and a likelihood call with `index` may do on a Searcher of
\* size len, when likelihood aborts from the index `from` on
CallLaw(from) ==
    /\ lastOp'.op \in {"report", "report panicked"} =>
          /\ lastOp'.index >= len <=> lastOp'.op = "report panicked"
          /\ lastOp'.index >= len => weights' = weights
    /\ lastOp'.op \in {"likelihood", "likelihood panicked"} =>
          /\ lastOp'.index >= from <=> lastOp'.op = "likelihood panicked"
          /\ lastOp'.op = "likelihood" =>
                lastOp'.ret = WeightAt(weights, lastOp'.index)
          /\ weights' = weights

\* C17 as stated: report and likelihood abort for every index >= len, report
\* leaving the weights unchanged and likelihood returning no value.
C17_AbortFromLen == [][CallLaw(len)]_vars

\* C17 amended: report aborts for every index >= len and leaves the weights
\* unchanged; likelihood aborts for every index > len and returns the weight
\* of the index for every index <= len, len itself included.
C17_LikelihoodAbortsAboveLen == [][CallLaw(len + 1)]_vars

\* After reports, likelihood(len) has returned a weight and it is not the
\* weight of index 0
C17_Witness ==
    /\ reports >= 1
    /\ lastOp.op = "likelihood" /\ lastOp.index = len
    /\ lastOp.ret = WeightAt(weights, len)
    /\ lastOp.ret # WeightAt(weights, 0)

----------------------------------------------------------------------------
(* Properties of the percentile search and the report of CompressedDAGSearcher *)

\* The atomic nodes of the graph, as <<segment, index>>
Candidates(nodes) ==
    UNION {{<<s, k>> : k \in 0..(nodes[s + 1].value - 1)} : s \in 0..(Len(nodes) - 1)}

RECURSIVE MassOfSegments(_, _, _)
\* The total mass of the segments of S
MassOfSegments(nodes, maps, S) ==
    IF S = {} THEN RInt(0)
    ELSE LET a == CHOOSE x \in S : TRUE
         IN  RAdd(Cumulative(maps[a + 1], nodes[a + 1].value - 1),
                  MassOfSegments(nodes, maps, S \ {a}))

\* The cumulative mass of a node: the mass of all strict ancestor segments
\* of its segment plus the mass of its segment up to and including the node
NodeCum(nodes, maps, c) ==
    RAdd(MassOfSegments(nodes, maps, nodes[c[1] + 1].ancestors),
         Cumulative(maps[c[1] + 1], c[2]))

\* The percentiles asked for
Percentiles == {<<0, 1>>, <<1, 4>>, <<1, 2>>, <<3, 4>>, <<1, 1>>}

C19_BestNodeReachesHalf ==
    Len(segment_range_maps) >= 1 =>
        \/ segment_percentile_ranges_panics(graph, segment_range_maps)
        \/ LET r == best_node(graph, segment_range_maps)
           IN  RLeq(Half, NodeCum(graph, segment_range_maps, <<r.segment, r.index>>))

\* The side of the cut of report(node, ...) a candidate is on: the
\* candidates of the strict ancestor segments and those of the node's
\* segment up to the node
InU(nodes, node, c) ==
    \/ c[1] \in nodes[node.segment + 1].ancestors
    \/ c[1] = node.segment /\ c[2] <= node.index

\* The weight ratio law of one report at `node`: m and m2 are the maps
\* before and after.
GraphRatioLaw(nodes, m, m2, node, heads, s) ==
    \A a, b \in Candidates(nodes) :
        LET before == RMul(WeightAt(m[a[1] + 1], a[2]), WeightAt(m2[b[1] + 1], b[2]))
            after == RMul(WeightAt(m2[a[1] + 1], a[2]), WeightAt(m[b[1] + 1], b[2]))
            factor == RAdd(RInt(1), s)
        IN  /\ InU(nodes, node, a) = InU(nodes, node, b) => after = before
            /\ InU(nodes, node, a) /\ ~InU(nodes, node, b) =>
                  IF heads THEN after = RMul(factor, before)
                  ELSE before = RMul(factor, after)

\* C20: report(node, heads, f) with a node of the graph multiplies
\* weight(a) / weight(b) by 1 + stiffness for a in U and b outside U when
\* heads, divides it by 1 + stiffness when tails, and leaves the ratio of
\* two candidates on one side unchanged; U is the candidates of the strict
\* ancestor segments of node.segment and (node.segment, k) for k <= node.index.
C20_GraphRatioLaw ==
    [][reports' = reports + 1 =>
          GraphRatioLaw(graph, segment_range_maps, segment_range_maps',
                        [segment |-> lastOp'.segment, index |-> lastOp'.index],
                        lastOp'.heads, lastOp'.stiffness)]_vars

\* A tails report has acted inside a segment that has ancestors and a
\* segment that is neither ancestor nor descendant
C20_Witness ==
    /\ Len(graph) >= 4 /\ reports >= 1
    /\ lastOp.op = "report" /\ ~lastOp.heads
    /\ graph[lastOp.segment + 1].ancestors # {}
    /\ graph[lastOp.segment + 1].value >= 2 /\ lastOp.index = 0
    /\ \E s \in 0..(Len(graph) - 1) :
          /\ s # lastOp.segment
          /\ s \notin graph[lastOp.segment + 1].ancestors
          /\ lastOp.segment \notin graph[s + 1].ancestors
    /\ Len(segment_range_maps[lastOp.segment + 1]) = 2

----------------------------------------------------------------------------
(* optimal_stiffness and the Auto wrappers  (lib.rs) *)

MaxAutoReports == 2

\* optimal_stiffness(f) = (2.6 / f^0.37).min(0.58 / f^0.97).min(0.19 / f^2.4),
\* tabulated: a pair <<f, q>> says that f (in units of 1 / FlakinessScale) is
\* the largest flakiness whose stiffness, rounded to the nearest quarter, is
\* q / 4.  The stiffness falls as the flakiness grows, so the pairs run from
\* flakiness 1 down to the smallest positive flakiness.
stiffness_table ==
    << <<10000, 1>>, <<7532, 2>>, <<6088, 3>>, <<5292, 4>>, <<4766, 5>>,
       <<4107, 6>>, <<3457, 7>>, <<2983, 8>>, <<2621, 9>>, <<2337, 10>>,
       <<2108, 11>>, <<1919, 12>>, <<1761, 13>>, <<1627, 14>>, <<1511, 15>>,
       <<1411, 16>>, <<1323, 17>>, <<1245, 18>>, <<1176, 19>>, <<1113, 20>>,
       <<1057, 21>>, <<1007, 22>>, <<961, 23>>, <<919, 24>>, <<880, 25>>,
       <<844, 26>>, <<798, 27>>, <<722, 28>>, <<655, 29>>, <<597, 30>>,
       <<545, 31>>, <<500, 32>>, <<459, 33>>, <<423, 34>>, <<391, 35>>,
       <<362, 36>>, <<335, 37>>, <<312, 38>>, <<290, 39>>, <<271, 40>>,
       <<253, 41>>, <<237, 42>>, <<222, 43>>, <<209, 44>>, <<196, 45>>,
       <<185, 46>>, <<174, 47>>, <<164, 48>>, <<155, 49>>, <<147, 50>>,
       <<139, 51>>, <<132, 52>>, <<125, 53>>, <<119, 54>>, <<113, 55>>,
       <<108, 56>>, <<103, 57>>, <<98, 58>>, <<93, 59>>, <<89, 60>>,
       <<85, 61>>, <<82, 62>>, <<78, 63>>, <<75, 64>>, <<72, 65>>,
       <<69, 66>>, <<66, 67>>, <<63, 68>>, <<61, 69>>, <<58, 70>>,
       <<56, 71>>, <<54, 72>>, <<52, 73>>, <<50, 74>>, <<48, 75>>,
       <<47, 76>>, <<45, 77>>, <<43, 78>>, <<42, 79>>, <<40, 80>>,
       <<39, 81>>, <<38, 82>>, <<37, 83>>, <<35, 84>>, <<34, 85>>,
       <<33, 86>>, <<32, 87>>, <<31, 88>>, <<30, 89>>, <<29, 90>>,
       <<28, 92>>, <<27, 93>>, <<26, 94>>, <<25, 95>>, <<24, 97>>,
       <<23, 98>>, <<22, 100>>, <<21, 102>>, <<20, 104>>, <<19, 106>>,
       <<18, 108>>, <<17, 110>>, <<16, 113>>, <<15, 115>>, <<14, 118>>,
       <<13, 122>>, <<12, 125>>, <<11, 129>>, <<10, 134>>, <<9, 139>>,
       <<8, 146>>, <<7, 153>>, <<6, 162>>, <<5, 173>>, <<4, 188>>,
       <<3, 209>>, <<2, 243>>, <<1, 314>> >>

RECURSIVE stiffness_lookup(_, _)
\* The q of the last pair <<t, q>> of stiffness_table[k..] with f <= t
stiffness_lookup(f, k) ==
    IF k = Len(stiffness_table) THEN stiffness_table[k][2]
    ELSE IF f > stiffness_table[k + 1][1] THEN stiffness_table[k][2]
    ELSE stiffness_lookup(f, k + 1)

\* optimal_stiffness of a flakiness in units of 1 / FlakinessScale.  The
\* powers of 0.0 are 0.0 and the three quotients are +infinity, written
\* <<1, 0>>.
optimal_stiffness(f) ==
    IF f = 0 THEN <<1, 0>> ELSE Rat(stiffness_lookup(f, 1), 4)

\* Mutant: the flakiness is read before the vote is recorded
AutoSearcher_report_reads_first(t, w, index, heads) ==
    LET tracker == FlakinessTracker_report(t, index, heads)
    IN  CHOOSE r \in {[tracker |-> tracker,
                       stiffness |-> stiffness,
                       weights |-> report_with_stiffness(w, index, heads, stiffness)] :
                          stiffness \in {optimal_stiffness(flakiness(t.votes))}} : TRUE

\* AutoSearcher::report: flakiness_tracker.report(index, heads), then
\* searcher.report(index, heads, flakiness_tracker.flakiness()), which is
\* report_with_stiffness(index, heads, optimal_stiffness(flakiness)).
AutoSearcher_report(t, w, index, heads) ==
    LET tracker == FlakinessTracker_report(t, index, heads)
    IN  CHOOSE r \in {[tracker |-> tracker,
                       stiffness |-> stiffness,
                       weights |-> report_with_stiffness(w, index, heads, stiffness)] :
                          stiffness \in {optimal_stiffness(flakiness(tracker.votes))}} : TRUE

\* AutoCompressedDAGSearcher::report: flakiness_tracker.report(node, heads),
\* then searcher.report(node, heads, flakiness_tracker.flakiness()).
AutoCompressedDAGSearcher_report(nodes, tv, maps, node, heads) ==
    LET tracker == graph_tracker_report(tv, node, heads)
    IN  CHOOSE r \in {[tracker |-> tracker,
                       stiffness |-> stiffness,
                       maps |-> graph_report(nodes, maps, node, heads, stiffness)] :
                          stiffness \in {optimal_stiffness(graph_flakiness(nodes, tracker))}} : TRUE

\* AutoSearcher::new(len)
InitAutoSearcher == InitSearcher

\* AutoCompressedDAGSearcher::new(graph)
InitAutoGraphSearcher == InitGraphSearcher

\* AutoSearcher::report(index, heads) with index < len
AutoSearcherReport(index, heads) ==
    /\ ~Aborted
    /\ len >= 1
    /\ ~report_with_stiffness_panics(len, index)
    /\ reports < MaxAutoReports
    /\ \E r \in {AutoSearcher_report(Tracker, weights, index, heads)} :
           /\ votes' = r.tracker.votes
           /\ total_heads' = r.tracker.total_heads
           /\ total_tails' = r.tracker.total_tails
           /\ weights' = r.weights
           /\ lastOp' = [op |-> "report", segment |-> 0, index |-> index,
                         heads |-> heads, stiffness |-> r.stiffness, ret |-> 0]
    /\ history' = Append(history, [segment |-> 0, index |-> index, heads |-> heads])
    /\ reports' = reports + 1
    /\ UNCHANGED <<len, graph, segment_range_maps, values, size, target,
                   fixed_stiffness, tracker_votes>>

\* AutoCompressedDAGSearcher::report(node, heads) with a node of the graph
AutoGraphReport(node, heads) ==
    /\ ~Aborted
    /\ in_range(graph, node)
    /\ reports < MaxAutoReports
    /\ \E r \in {AutoCompressedDAGSearcher_report(graph, tracker_votes,
                    segment_range_maps, node, heads)} :
           /\ tracker_votes' = r.tracker
           /\ segment_range_maps' = r.maps
           /\ lastOp' = [op |-> "report", segment |-> node.segment,
                         index |-> node.index, heads |-> heads,
                         stiffness |-> r.stiffness, ret |-> 0]
    /\ history' = Append(history, [segment |-> node.segment, index |-> node.index,
                                   heads |-> heads])
    /\ reports' = reports + 1
    /\ UNCHANGED <<weights, len, graph, values, size, target, fixed_stiffness,
                   votes, total_heads, total_tails>>

NextAuto ==
    \/ \E index \in 0..(len - 1), heads \in BOOLEAN : AutoSearcherReport(index, heads)
    \/ \E segment \in 0..(Len(graph) - 1), heads \in BOOLEAN :
           \E index \in 0..(graph[segment + 1].value - 1) :
               AutoGraphReport([segment |-> segment, index |-> index], heads)

SpecAuto == (InitAutoSearcher \/ InitAutoGraphSearcher) /\ [][NextAuto]_vars

----------------------------------------------------------------------------
(* Properties of the Auto wrappers *)

\* The flakiness of a linear tracker that holds the votes h, from the pairs
\* of votes themselves
FlakinessOf(h) ==
    closed_form(Cardinality(InvertedPairs(h, Reported(h))),
                FourTimesExpected(h) \div Pow2(Len(h)) + Len(h))

RECURSIVE Recorded(_, _)
\* The votes map of a DAG tracker that was reported the votes h[1..k]
Recorded(h, k) ==
    IF k = 0 THEN <<>>
    ELSE graph_tracker_report(Recorded(h, k - 1),
             [segment |-> h[k].segment, index |-> h[k].index], h[k].heads)

\* The stiffness a wrapper derives from the votes h
StiffnessOf(h) ==
    IF len >= 1 THEN optimal_stiffness(FlakinessOf(h))
    ELSE optimal_stiffness(graph_flakiness(graph, Recorded(h, Len(h))))

\* C21: the k-th report of AutoSearcher and of AutoCompressedDAGSearcher
\* scales the weights with optimal_stiffness of the flakiness of the votes
\* 1..k, the k-th included: the vote is recorded before the flakiness is read.
C21_VoteRecordedBeforeFlakinessRead ==
    [][reports' = reports + 1 =>
          /\ Len(history') = reports'
          /\ lastOp'.stiffness = StiffnessOf(history')
          /\ len >= 1 =>
                RatioLaw(weights, weights', len, lastOp'.index, lastOp'.heads,
                         StiffnessOf(history'))
          /\ len = 0 =>
                GraphRatioLaw(graph, segment_range_maps, segment_range_maps',
                              [segment |-> lastOp'.segment, index |-> lastOp'.index],
                              lastOp'.heads, StiffnessOf(history'))]_vars

\* A second report has acted whose stiffness is not the one of the votes
\* before it
C21_Witness ==
    /\ reports = 2 /\ Len(history) = 2
    /\ lastOp.op = "report"
    /\ lastOp.stiffness = StiffnessOf(history)
    /\ lastOp.stiffness # StiffnessOf(SubSeq(history, 1, 1))
    /\ len >= 2
    /\ WeightAt(weights, 0) # WeightAt(weights, len)

----------------------------------------------------------------------------
(* Searchers whose calls are recorded: reports and queries *)

MaxCalls == 2

\* What the three queries of a Searcher return in one state
Answers(w, n) ==
    [next |-> next_index(w, n),
     best |-> best_index(w),
     likelihood |-> [i \in 0..n |-> likelihood(w, i)]]

\* What the three queries of a CompressedDAGSearcher return in one state
GraphAnswers(nodes, maps) ==
    [next |-> next_node(nodes, maps),
     best |-> best_node(nodes, maps),
     likelihood |-> [c \in Candidates(nodes) |->
                        graph_likelihood(maps, [segment |-> c[1], index |-> c[2]])]]

\* Searcher::report_with_stiffness(index, heads, stiffness), recorded
RecordedReport(index, heads, s) ==
    /\ ~Aborted
    /\ len >= 1
    /\ ~report_with_stiffness_panics(len, index)
    /\ Len(history) < MaxCalls
    /\ weights' = report_with_stiffness(weights, index, heads, s)
    /\ reports' = reports + 1
    /\ lastOp' = [op |-> "report", segment |-> 0, index |-> index, heads |-> heads,
                  stiffness |-> s, ret |-> 0]
    /\ history' = Append(history, [segment |-> 0, index |-> index, heads |-> heads,
                                   stiffness |-> s])
    /\ UNCHANGED <<len, graph, segment_range_maps, values, size, target,
                   fixed_stiffness, votes, total_heads, total_tails, tracker_votes>>

\* CompressedDAGSearcher::report(node, heads, flakiness) with a node of the
\* graph, recorded
RecordedGraphReport(node, heads, s) ==
    /\ ~Aborted
    /\ in_range(graph, node)
    /\ Len(history) < MaxCalls
    /\ segment_range_maps' = graph_report(graph, segment_range_maps, node, heads, s)
    /\ reports' = reports + 1
    /\ lastOp' = [op |-> "report", segment |-> node.segment, index |-> node.index,
                  heads |-> heads, stiffness |-> s, ret |-> 0]
    /\ history' = Append(history, [segment |-> node.segment, index |-> node.index,
                                   heads |-> heads, stiffness |-> s])
    /\ UNCHANGED <<weights, len, graph, values, size, target, fixed_stiffness,
                   votes, total_heads, total_tails, tracker_votes>>

\* Mutant: the queries cut the entry that holds next_index
SearcherQueries_cut ==
    /\ ~Aborted
    /\ len >= 1
    /\ weights' = split(weights, next_index(weights, len)).values
    /\ lastOp' = [op |-> "queries", segment |-> 0, index |-> 0, heads |-> FALSE,
                  stiffness |-> RInt(0), ret |-> Answers(weights, len)]
    /\ UNCHANGED <<len, graph, segment_range_maps, values, size, reports, target,
                   fixed_stiffness, trackerVars>>

\* next_index(), best_index() and likelihood(i) for every i of 0..len: all
\* take &self
SearcherQueries ==
    /\ ~Aborted
    /\ len >= 1
    /\ lastOp' = [op |-> "queries", segment |-> 0, index |-> 0, heads |-> FALSE,
                  stiffness |-> RInt(0), ret |-> Answers(weights, len)]
    /\ UNCHANGED <<weights, len, graph, segment_range_maps, values, size, reports,
                   target, fixed_stiffness, trackerVars>>

\* next_node(), best_node() and likelihood(node) for every node of the graph
GraphQueries ==
    /\ ~Aborted
    /\ Len(graph) >= 1
    /\ ~segment_percentile_ranges_panics(graph, segment_range_maps)
    /\ lastOp' = [op |-> "queries", segment |-> 0, index |-> 0, heads |-> FALSE,
                  stiffness |-> RInt(0),
                  ret |-> GraphAnswers(graph, segment_range_maps)]
    /\ UNCHANGED <<weights, len, graph, segment_range_maps, values, size, reports,
                   target, fixed_stiffness, trackerVars>>

\* The stiffness values of the recorded reports, one below 1 and one above
RecordedStiffnesses == {<<1, 2>>, <<2, 1>>}

NextRecorded ==
    \/ \E index \in 0..(len - 1), heads \in BOOLEAN, s \in RecordedStiffnesses :
           RecordedReport(index, heads, s)
    \/ \E segment \in 0..(Len(graph) - 1), heads \in BOOLEAN,
              s \in RecordedStiffnesses :
           \E index \in 0..(graph[segment + 1].value - 1) :
               RecordedGraphReport([segment |-> segment, index |-> index], heads, s)
    \/ SearcherQueries
    \/ GraphQueries

SpecRecorded == (InitSearcher \/ InitGraphSearcher) /\ [][NextRecorded]_vars

----------------------------------------------------------------------------
(* Properties of the recorded searchers *)

RECURSIVE Replay(_, _, _)
\* The weights of a second Searcher of size n that is given the reports h[1..upto]
Replay(n, h, upto) ==
    IF upto = 0 THEN Searcher_new(n)
    ELSE report_with_stiffness(Replay(n, h, upto - 1), h[upto].index,
                               h[upto].heads, h[upto].stiffness)

RECURSIVE GraphReplay(_, _, _)
\* The maps of a second CompressedDAGSearcher over the graph that is given
\* the reports h[1..upto]
GraphReplay(nodes, h, upto) ==
    IF upto = 0 THEN CompressedDAGSearcher_new(nodes)
    ELSE graph_report(nodes, GraphReplay(nodes, h, upto - 1),
                      [segment |-> h[upto].segment, index |-> h[upto].index],
                      h[upto].heads, h[upto].stiffness)

----------------------------------------------------------------------------
(* Both trackers, and the flakiness they hand to optimal_stiffness *)

NextTrackers ==
    \/ graph = <<>> /\ NextTracker
    \/ NextGraphTracker

SpecTrackers == (InitTracker \/ InitGraphTracker) /\ [][NextTrackers]_vars

\* flakiness() of the tracker the state holds
Flakiness ==
    IF graph = <<>> THEN flakiness(votes) ELSE graph_flakiness(graph, tracker_votes)

----------------------------------------------------------------------------
(* Properties of the weights *)

C25_SegmentStartIsAncestorMass ==
    Len(segment_range_maps) >= 1 =>
        /\ ~segment_percentile_ranges_panics(graph, segment_range_maps)
        /\ \A s \in 0..(Len(graph) - 1) :
              LET r == segment_percentile_ranges(graph, segment_range_maps)[s + 1]
              IN  /\ r[1] = MassOfSegments(graph, segment_range_maps,
                                           graph[s + 1].ancestors)
                  /\ r[2] = RAdd(r[1], MassOfSegments(graph, segment_range_maps, {s}))
                  /\ RLeq(RInt(0), r[1]) /\ RLeq(r[1], RInt(1))
                  /\ RLeq(RInt(0), r[2]) /\ RLeq(r[2], RInt(1))

\* After two reports, a segment with a first input, ancestors behind it and
\* remainder ancestors starts above one half, and a tails report inside
\* another segment was the last one
C25_Witness ==
    /\ Len(segment_range_maps) >= 4 /\ reports >= 2
    /\ lastOp.op = "report" /\ ~lastOp.heads
    /\ \E s \in 0..(Len(graph) - 1) :
          LET r == segment_percentile_ranges(graph, segment_range_maps)[s + 1]
          IN  /\ graph[s + 1].remainder_ancestors # <<>>
              /\ graph[graph[s + 1].inputs[1] + 1].ancestors # {}
              /\ lastOp.segment # s
              /\ RLess(Half, r[1])
              /\ RLess(r[1], r[2])

\* How far the cumulative mass of a node is from one half
Distance(nodes, maps, c) == RAbs(RSub(NodeCum(nodes, maps, c), Half))

\* C26: next_node() returns a node whose cumulative mass (ancestor segments
\* plus the prefix of its segment up to and including the node) is nearest
\* to 0.5 among all nodes of all segments; of equally near nodes in
\* different segments, the one in the segment of smallest index is returned.
C26_NextNodeIsNearest ==
    Len(segment_range_maps) >= 1 =>
        LET r == next_node(graph, segment_range_maps)
            d == Distance(graph, segment_range_maps, <<r.segment, r.index>>)
        IN  /\ <<r.segment, r.index>> \in Candidates(graph)
            /\ \A c \in Candidates(graph) :
                  /\ RLeq(d, Distance(graph, segment_range_maps, c))
                  /\ Distance(graph, segment_range_maps, c) = d => r.segment <= c[1]

\* After a report, a node of a later segment is as near to one half as the
\* node returned, and some node of an earlier segment is farther
C26_Witness ==
    /\ Len(segment_range_maps) >= 2 /\ reports >= 1
    /\ lastOp.op = "report"
    /\ LET r == next_node(graph, segment_range_maps)
           d == Distance(graph, segment_range_maps, <<r.segment, r.index>>)
       IN  /\ r.segment >= 1
           /\ \E c \in Candidates(graph) :
                 c[1] > r.segment /\ Distance(graph, segment_range_maps, c) = d
           /\ \E c \in Candidates(graph) :
                 c[1] < r.segment /\ RLess(d, Distance(graph, segment_range_maps, c))

\* C27: each Searcher report at index i adds at most 2 RangeMap entries, so
\* after n reports there are at most 1 + 2n, and right after the report the
\* entry that covers i has offset i and len 1.
C27_ReportCutsAroundIndex ==
    /\ [](len >= 1 => Len(weights) <= 1 + 2 * reports)
    /\ [][len >= 1 /\ reports' = reports + 1 =>
             /\ Len(weights') <= Len(weights) + 2
             /\ range_for_index(weights', lastOp'.index).offset = lastOp'.index
             /\ range_for_index(weights', lastOp'.index).len = 1]_vars

\* A first report in the middle of the single entry has made three entries
C27_Witness ==
    /\ len >= 3 /\ reports = 1
    /\ lastOp.op = "report" /\ lastOp.index >= 1
    /\ Len(weights) = 3
    /\ range_for_index(weights, lastOp.index).len = 1

\* The orders the recorded reports h can be made in
Orders(h) ==
    {Collect([k \in 1..Len(h) |-> h[p[k]]]) :
        p \in {q \in [1..Len(h) -> 1..Len(h)] :
                  \A a, b \in 1..Len(h) : a # b => q[a] # q[b]}}

----------------------------------------------------------------------------
(* Properties of the tracker state *)

\* The number of recorded votes at index i that are heads (tails)
CountAt(h, i, heads) ==
    Cardinality({k \in 1..Len(h) : h[k].index = i /\ h[k].heads = heads})

RECURSIVE BucketSum(_, _, _)
\* The tails (j = 1) or heads (j = 2) counts of the buckets of S, added up
BucketSum(v, S, j) ==
    IF S = {} THEN 0
    ELSE LET i == CHOOSE x \in S : TRUE
         IN  v[i][j] + BucketSum(v, S \ {i}, j)

RECURSIVE TrackerOf(_, _)
\* A linear tracker that was reported the votes h[1..upto]
TrackerOf(h, upto) ==
    IF upto = 0 THEN FlakinessTracker_default
    ELSE FlakinessTracker_report(TrackerOf(h, upto - 1), h[upto].index, h[upto].heads)

\* The votes h with the votes at positions j and j + 1 exchanged
Exchanged(h, j) ==
    Collect([k \in 1..Len(h) |->
                IF k = j THEN h[j + 1] ELSE IF k = j + 1 THEN h[j] ELSE h[k]])

\* C29: the state of a FlakinessTracker is the per-index counts of the votes
\* reported, whatever their order: the totals are the sums of the bucket
\* counters, total_votes is the number of reports, each report adds 1 to one
\* counter of its bucket and to the matching total, and inversions() is the
\* same for every order of the same votes (every order is reached by
\* exchanging neighbours).
C29_StateIsMultisetOfReports ==
    /\ [](/\ DOMAIN votes = {history[k].index : k \in 1..Len(history)}
          /\ \A i \in DOMAIN votes :
                votes[i] = <<CountAt(history, i, FALSE), CountAt(history, i, TRUE)>>
          /\ total_tails = BucketSum(votes, DOMAIN votes, 1)
          /\ total_heads = BucketSum(votes, DOMAIN votes, 2)
          /\ total_votes(Tracker) = Len(history)
          /\ \A j \in 1..(Len(history) - 1) :
                LET t == TrackerOf(Exchanged(history, j), Len(history))
                IN  /\ t = Tracker
                    /\ inversions(t.votes) = inversions(votes))
    /\ [][Len(history') = Len(history) + 1 =>
             LET v == history'[Len(history')]
                 j == IF v.heads THEN 2 ELSE 1
                 old == IF v.index \in DOMAIN votes THEN votes[v.index] ELSE <<0, 0>>
             IN  /\ votes'[v.index][j] = old[j] + 1
                 /\ votes'[v.index][3 - j] = old[3 - j]
                 /\ \A i \in DOMAIN votes : i # v.index => votes'[i] = votes[i]
                 /\ total_heads' = total_heads + (IF v.heads THEN 1 ELSE 0)
                 /\ total_tails' = total_tails + (IF v.heads THEN 0 ELSE 1)]_vars

\* Four votes: heads and tails in one bucket, votes in another bucket, and
\* an inversion between the buckets
C29_Witness ==
    /\ Len(history) = 4
    /\ \E i \in DOMAIN votes : votes[i][1] >= 1 /\ votes[i][2] >= 1
    /\ Cardinality(DOMAIN votes) >= 2
    /\ inversions(votes)[1] >= 2
    /\ history[1].index > history[4].index

----------------------------------------------------------------------------
(* The DAG tracker on a chain of segments *)

\* Segment 0 has no input and segment k has the single input k - 1
IsChain(nodes) ==
    \A k \in 1..Len(nodes) :
        nodes[k].inputs = IF k = 1 THEN <<>> ELSE <<k - 2>>

\* The position of node (segment, index) in the concatenated chain
Position(nodes, segment, index) == total_len(nodes, segment) + index

\* The votes h with each node mapped to its position in the chain
Concatenated(nodes, h) ==
    Collect([k \in 1..Len(h) |->
                [segment |-> 0,
                 index |-> Position(nodes, h[k].segment, h[k].index),
                 heads |-> h[k].heads]])

\* C30: on a chain of segments, inversions() of the DAG tracker is
\* inversions() of a linear FlakinessTracker fed the same votes at the
\* positions of their nodes in the concatenated chain, for every vote
\* sequence, segments without votes included.
C30_ChainMatchesLinear ==
    (Len(graph) >= 1 /\ IsChain(graph)) =>
        graph_inversions(graph, tracker_votes)
            = inversions(TrackerOf(Concatenated(graph, history), Len(history)).votes)

====
